---- MODULE Spec2Model ----
(***************************************************************************)
(* A model of bsdiff-android: the sign-magnitude integer codec, the BSDF2  *)
(* container writer and reader, the container applier patch_bsdf2, the     *)
(* suffix sort and the differ of diff.rs and the streaming applier of      *)
(* patch.rs.                                                               *)
(*                                                                         *)
(* Bytes are naturals in 0..255.  A 64-bit machine integer (i64, u64,      *)
(* usize, isize on the 64-bit targets the crate is built for) is a Word:   *)
(* its 8 bytes in little-endian order, two's complement for the signed     *)
(* types, so that the limits 2^31 and 2^63 of the code are real values of  *)
(* the model.  Lengths and cursors that are bounded by the length of a     *)
(* buffer that exists are plain naturals.                                  *)
(***************************************************************************)
EXTENDS Integers, Sequences, FiniteSets, TLC

VARIABLES
    \* the codec under test: an i64 x, what each encoder wrote for it, the
    \* 8 bytes handed to the decoders and what each decoder returned
    x, xval, enc_w, enc_d, buf, dec_b, dec_p


VARIABLES
    \* patch_bsdf2(old, patch_data, new): its arguments, the streams and the
    \* declared size parse_bsdf2_header returned, its cursors, where the call
    \* is (apc) and what it returned (ret)
    old, patch_data, new, new_size, control_data, diff_data, extra_data,
    oldpos, diff_pos, extra_pos, ctrl_idx, apc, ret,
    \* what the caller's buffer held when patch_bsdf2 was called
    new0

VARIABLES
    \* the Bsdf2Writer object, the calls made on it so far, the bytes close
    \* wrote to its sink, and whether the writer is open, closed or panicked
    writer, calls, sink, wpc

VARIABLES
    \* diff(old, new, writer): its arguments, the arrays I and V of the suffix
    \* sort and its doubling h, the locals of bsdiff_internal, the bytes
    \* written to the writer, the tuples written, and where the call is (dpc)
    diff_old, diff_new, suffix, sufh, differ, patch_stream, tuples, dpc

VARIABLES
    \* patch(old, patch, new): its arguments (the reader hands out at most
    \* p_chunk bytes per read and stands at p_read), its cursor, where the
    \* call is (ppc) and what it returned (p_ret)
    p_old, p_stream, p_chunk, p_new, p_oldpos, p_read, ppc, p_ret

diffVars ==
    <<diff_old, diff_new, suffix, sufh, differ, patch_stream, tuples, dpc>>

patchVars == <<p_old, p_stream, p_chunk, p_new, p_oldpos, p_read, ppc, p_ret>>

codecVars == <<x, xval, enc_w, enc_d, buf, dec_b, dec_p>>

writerVars == <<writer, calls, sink, wpc>>

applyVars ==
    <<old, patch_data, new, new_size, control_data, diff_data, extra_data,
      oldpos, diff_pos, extra_pos, ctrl_idx, apc, ret, new0>>

vars == <<codecVars, applyVars, writerVars, diffVars, patchVars>>

----------------------------------------------------------------------------
(* 64-bit machine arithmetic *)

Byte == 0..255

ZeroW == <<0, 0, 0, 0, 0, 0, 0, 0>>

\* The word of a natural below 2^31 (usize::from / `as usize` / `as i64`).
NatW(n) ==
    <<n % 256, (n \div 256) % 256, (n \div 65536) % 256, (n \div 16777216) % 256,
      0, 0, 0, 0>>

\* A word that is a natural below 2^31.
IsSmall(w) == w[5] = 0 /\ w[6] = 0 /\ w[7] = 0 /\ w[8] = 0 /\ w[4] < 128

\* The natural of a small word.
WNat(w) == w[1] + 256 * w[2] + 65536 * w[3] + 16777216 * w[4]

\* Bit 63, the sign bit of an i64.
SignBit(w) == w[8] >= 128

SetBit63(w) == [w EXCEPT ![8] = IF w[8] < 128 THEN w[8] + 128 ELSE w[8]]

ClearBit63(w) == [w EXCEPT ![8] = w[8] % 128]

\* The sums of a + b byte by byte, each with the carry of the one before.
ByteSums(a, b) ==
    LET s1 == a[1] + b[1]
        s2 == a[2] + b[2] + s1 \div 256
        s3 == a[3] + b[3] + s2 \div 256
        s4 == a[4] + b[4] + s3 \div 256
        s5 == a[5] + b[5] + s4 \div 256
        s6 == a[6] + b[6] + s5 \div 256
        s7 == a[7] + b[7] + s6 \div 256
        s8 == a[8] + b[8] + s7 \div 256
    IN  <<s1, s2, s3, s4, s5, s6, s7, s8>>

\* a + b modulo 2^64 (wrapping_add).
WAdd(a, b) ==
    LET s == ByteSums(a, b)
    IN  <<s[1] % 256, s[2] % 256, s[3] % 256, s[4] % 256,
          s[5] % 256, s[6] % 256, s[7] % 256, s[8] % 256>>

\* u64/usize addition leaves the 64 bits (checked_add returns None).
UOverflows(a, b) == ByteSums(a, b)[8] >= 256

\* i64 addition leaves the 64 bits (checked_add returns None).
SOverflows(a, b) ==
    /\ SignBit(a) = SignBit(b)
    /\ SignBit(WAdd(a, b)) # SignBit(a)

WNot(w) ==
    <<255 - w[1], 255 - w[2], 255 - w[3], 255 - w[4],
      255 - w[5], 255 - w[6], 255 - w[7], 255 - w[8]>>

\* Two's complement negation modulo 2^64 (wrapping_neg).
WNeg(w) == WAdd(WNot(w), NatW(1))

RECURSIVE LtFrom(_, _, _)
\* Unsigned a < b decided on bytes i..1.
LtFrom(a, b, i) ==
    IF i = 0 THEN FALSE
    ELSE IF a[i] # b[i] THEN a[i] < b[i]
    ELSE LtFrom(a, b, i - 1)

\* a < b as u64/usize.
ULt(a, b) == LtFrom(a, b, 8)

\* usize::saturating_add
SaturatingAdd(a, b) ==
    IF UOverflows(a, b) THEN <<255, 255, 255, 255, 255, 255, 255, 255>>
    ELSE WAdd(a, b)

\* i64::MIN, the one i64 whose negation overflows.
I64Min == <<0, 0, 0, 0, 0, 0, 0, 128>>

\* i64::MAX
I64Max == <<255, 255, 255, 255, 255, 255, 255, 127>>

----------------------------------------------------------------------------
(* The integer codec *)

\* bsdf2.rs offtin: sign-magnitude bytes to i64.
offtin_bsdf2(b) ==
    IF ~SignBit(b) THEN b ELSE WNeg(ClearBit63(b))

\* patch.rs offtin: sign-magnitude bytes to i64.
offtin(b) ==
    IF ~SignBit(b) THEN b ELSE WNeg(ClearBit63(b))

\* What a call of an encoder can do: write 8 bytes, or panic.
Wrote(b) == [panic |-> FALSE, bytes |-> b]

Panicked == [panic |-> TRUE, bytes |-> <<>>]

\* encode_int64 as plain little-endian two's complement.
encode_int64_twos_complement(v) == {Wrote(v)}

\* bsdf2_writer.rs encode_int64.  The negation of i64::MIN overflows: the
\* build with overflow checks panics, the build without wraps.
encode_int64(v) ==
    IF ~SignBit(v) THEN {Wrote(v)}
    ELSE IF v = I64Min THEN {Panicked, Wrote(SetBit63(WNeg(v)))}
    ELSE {Wrote(SetBit63(WNeg(v)))}

\* diff.rs offtout, on the isize widened to i64.
offtout(v) ==
    IF ~SignBit(v) THEN {Wrote(v)}
    ELSE IF v = I64Min THEN {Panicked, Wrote(SetBit63(WNeg(v)))}
    ELSE {Wrote(SetBit63(WNeg(v)))}

----------------------------------------------------------------------------
(* Sequences of bytes *)

\* s[from..to) with the indices of the code (from 0).
Slice(s, from, to) == SubSeq(s, from + 1, to)

\* s[i] with the index of the code (from 0).
At(s, i) == s[i + 1]

RECURSIVE Concat(_)
\* The concatenation of a sequence of sequences.
Concat(ss) == IF ss = <<>> THEN <<>> ELSE Head(ss) \o Concat(Tail(ss))

----------------------------------------------------------------------------
(* The compression adapter.  The bzip2 and brotli crates are outside the   *)
(* repository: each codec is a lossless framing of the data that is not    *)
(* the identity and that fails to decode bytes it did not produce.         *)

\* enum CompressionAlgorithm { None = 0, Bz2 = 1, Brotli = 2 }
AlgNone == "None"

AlgBz2 == "Bz2"

AlgBrotli == "Brotli"

CompressionAlgorithm == {AlgNone, AlgBz2, AlgBrotli}

\* alg as u8
as_u8(alg) ==
    CASE alg = AlgNone -> 0
      [] alg = AlgBz2 -> 1
      [] alg = AlgBrotli -> 2

\* What the bzip2 encoder puts before the data.
Bz2Frame == <<66>>

\* What the brotli encoder puts after the data.
BrotliFrame == <<3>>

\* bsdf2_writer.rs compress
compress(alg, data) ==
    CASE alg = AlgNone -> data
      [] alg = AlgBz2 -> Bz2Frame \o data
      [] alg = AlgBrotli -> data \o BrotliFrame

\* bsdf2.rs decompress: the data, or the decoder's error.
decompress(alg, data) ==
    CASE alg = AlgNone -> [ok |-> TRUE, data |-> data]
      [] alg = AlgBz2 ->
            IF Len(data) >= 1 /\ SubSeq(data, 1, 1) = Bz2Frame
            THEN [ok |-> TRUE, data |-> Tail(data)]
            ELSE [ok |-> FALSE, data |-> <<>>]
      [] alg = AlgBrotli ->
            IF Len(data) >= 1 /\ SubSeq(data, Len(data), Len(data)) = BrotliFrame
            THEN [ok |-> TRUE, data |-> SubSeq(data, 1, Len(data) - 1)]
            ELSE [ok |-> FALSE, data |-> <<>>]

\* CompressionAlgorithm::from_u8: the algorithm, or "Err".
from_u8(value) ==
    CASE value = 0 -> AlgNone
      [] value = 1 -> AlgBz2
      [] value = 2 -> AlgBrotli
      [] OTHER -> "Err"

----------------------------------------------------------------------------
(* The container reader *)

\* "BSDIFF40"
BSDIFF_MAGIC == <<66, 83, 68, 73, 70, 70, 52, 48>>

\* "BSDF2"
BSDF2_MAGIC == <<66, 83, 68, 70, 50>>

\* 2 * 1024 * 1024 * 1024
MAX_NEW_SIZE == <<0, 0, 0, 128, 0, 0, 0, 0>>

\* What a call returns: Ok, or an io::Error of a kind with a message.
Ok == [kind |-> "Ok", msg |-> ""]

Err(kind, msg) == [kind |-> kind, msg |-> msg]

NoRet == [kind |-> "", msg |-> ""]

\* The Ok value of parse_bsdf2_header, or its error with no streams.
Parsed(r, ns, c, d, e) ==
    [ret |-> r, new_size |-> ns, control_data |-> c, diff_data |-> d,
     extra_data |-> e]

ParseErr(kind, msg) == Parsed(Err(kind, msg), ZeroW, <<>>, <<>>, <<>>)

\* ParseStreams without the check of the control length.
ParseStreams_unaligned(data, algs, len_control, len_diff, ns) ==
    LET control == decompress(algs[1], Slice(data, 32, 32 + len_control))
        diff_end == 32 + len_control + len_diff
        diff == decompress(algs[2], Slice(data, 32 + len_control, diff_end))
        extra == decompress(algs[3], Slice(data, diff_end, Len(data)))
    IN  IF ~control.ok THEN ParseErr("CompressionError", "control")
        ELSE IF ~diff.ok THEN ParseErr("CompressionError", "diff")
        ELSE IF ~extra.ok THEN ParseErr("CompressionError", "extra")
        ELSE Parsed(Ok, ns, control.data, diff.data, extra.data)

\* The rest of parse_bsdf2_header once the lengths are known to lie in the
\* patch: slice and decompress the three streams.
ParseStreams(data, algs, len_control, len_diff, ns) ==
    LET pos == 32
        control_end == pos + len_control
        control == decompress(algs[1], Slice(data, pos, control_end))
        diff_start == control_end
        diff_end == diff_start + len_diff
        diff == decompress(algs[2], Slice(data, diff_start, diff_end))
        extra == decompress(algs[3], Slice(data, diff_end, Len(data)))
    IN  IF control_end > Len(data)
        THEN ParseErr("InvalidData", "Control stream exceeds patch bounds")
        ELSE IF ~control.ok
        THEN ParseErr("CompressionError", "control")
        ELSE IF Len(control.data) % 24 # 0
        THEN ParseErr("InvalidData",
                      "Invalid control data length (not multiple of 24)")
        ELSE IF diff_end > Len(data)
        THEN ParseErr("InvalidData", "Diff stream exceeds patch bounds")
        ELSE IF ~diff.ok
        THEN ParseErr("CompressionError", "diff")
        ELSE IF ~extra.ok
        THEN ParseErr("CompressionError", "extra")
        ELSE Parsed(Ok, ns, control.data, diff.data, extra.data)

\* The length checks of parse_bsdf2_header on the three header integers.
ParseLengths(data, algs) ==
    LET len_control == offtin_bsdf2(Slice(data, 8, 16))
        len_diff == offtin_bsdf2(Slice(data, 16, 24))
        ns == offtin_bsdf2(Slice(data, 24, 32))
        p1 == WAdd(NatW(32), len_control)
        total == WAdd(p1, len_diff)
    IN  IF SignBit(len_control) \/ SignBit(len_diff) \/ SignBit(ns)
        THEN ParseErr("InvalidData", "Negative length in patch header")
        ELSE IF ULt(MAX_NEW_SIZE, ns)
        THEN ParseErr("InvalidData", "New size exceeds limit")
        ELSE IF \/ UOverflows(NatW(32), len_control)
                \/ UOverflows(p1, len_diff)
                \/ ULt(NatW(Len(data)), total)
        THEN ParseErr("InvalidData", "Stream lengths exceed patch size")
        ELSE ParseStreams(data, algs, WNat(len_control), WNat(len_diff), ns)

\* parse_bsdf2_header taking every magic it does not know for the legacy one.
parse_bsdf2_header_any_magic(data) ==
    IF Len(data) < 32
    THEN ParseErr("InvalidData", "Patch data too short")
    ELSE LET magic == Slice(data, 0, 8)
         IN  IF Slice(magic, 0, 5) = BSDF2_MAGIC
             THEN LET algs == <<from_u8(magic[6]), from_u8(magic[7]),
                                from_u8(magic[8])>>
                  IN  IF \E i \in 1..3 : algs[i] = "Err"
                      THEN ParseErr("InvalidData", "Unknown compression algorithm")
                      ELSE ParseLengths(data, algs)
             ELSE ParseLengths(data, <<AlgBz2, AlgBz2, AlgBz2>>)

\* parse_bsdf2_header(patch_data)
parse_bsdf2_header(data) ==
    IF Len(data) < 32
    THEN ParseErr("InvalidData", "Patch data too short")
    ELSE LET magic == Slice(data, 0, 8)
         IN  IF magic = BSDIFF_MAGIC
             THEN ParseLengths(data, <<AlgBz2, AlgBz2, AlgBz2>>)
             ELSE IF Slice(magic, 0, 5) = BSDF2_MAGIC
             THEN LET algs == <<from_u8(magic[6]), from_u8(magic[7]),
                                from_u8(magic[8])>>
                  IN  IF \E i \in 1..3 : algs[i] = "Err"
                      THEN ParseErr("InvalidData", "Unknown compression algorithm")
                      ELSE ParseLengths(data, algs)
             ELSE ParseErr("InvalidData", "Invalid BSDIFF/BSDF2 magic header")

----------------------------------------------------------------------------
(* The container applier patch_bsdf2 *)

\* old.get(oldpos + i).copied().unwrap_or(0)
OldByte(o, pos, i) ==
    LET at == WAdd(pos, NatW(i))
    IN  IF IsSmall(at) /\ WNat(at) < Len(o) THEN At(o, WNat(at)) ELSE 0

\* The ADD step appending the diff bytes alone.
AddBytes_without_old(o, pos, diff, dpos, n) ==
    [i \in 1..n |-> At(diff, dpos + i - 1)]

\* The bytes the ADD step appends: old[oldpos + i] + diff[diff_pos + i],
\* wrapping, for i in 0..add_len.
AddBytes(o, pos, diff, dpos, n) ==
    [i \in 1..n |-> (OldByte(o, pos, i - 1) + At(diff, dpos + i - 1)) % 256]

\* new.len() + add_len + copy_len, checked, exceeds new_size.
ExceedsNewSize(len, add_len, copy_len, ns) ==
    LET n1 == WAdd(NatW(len), add_len)
    IN  \/ UOverflows(NatW(len), add_len)
        \/ UOverflows(n1, copy_len)
        \/ ULt(ns, WAdd(n1, copy_len))

\* pos + len, checked, exceeds the length of the stream.
Exhausted(pos, len, avail) ==
    UOverflows(NatW(pos), len) \/ ULt(NatW(avail), WAdd(NatW(pos), len))

\* The call returns: the output buffer stays as it is.
ApplyReturn(r) ==
    /\ ret' = r
    /\ apc' = "returned"

\* patch_bsdf2 from its entry to the tuple loop: the header is parsed, the
\* output buffer cleared and the cursors set to 0.
PatchBsdf2Enter ==
    /\ apc = "call"
    /\ LET h == parse_bsdf2_header(patch_data)
       IN  IF h.ret # Ok
           THEN /\ ApplyReturn(h.ret)
                /\ UNCHANGED <<new, new_size, control_data, diff_data,
                               extra_data, oldpos, diff_pos, extra_pos,
                               ctrl_idx>>
           ELSE /\ new' = <<>>
                /\ new_size' = h.new_size
                /\ control_data' = h.control_data
                /\ diff_data' = h.diff_data
                /\ extra_data' = h.extra_data
                /\ oldpos' = ZeroW
                /\ diff_pos' = 0
                /\ extra_pos' = 0
                /\ ctrl_idx' = 0
                /\ apc' = "loop"
                /\ UNCHANGED ret
    /\ UNCHANGED <<old, patch_data, new0>>

\* The SEEK step of a tuple, after its ADD and COPY steps left the output
\* buffer as out and the cursors at pos, dpos and epos.
SeekStep(out, pos, dpos, epos, seek_amount) ==
    LET new_oldpos == WAdd(pos, seek_amount)
    IN  /\ new' = out
        /\ diff_pos' = dpos
        /\ extra_pos' = epos
        /\ IF SOverflows(pos, seek_amount)
           THEN ApplyReturn(Err("InvalidData", "Seek overflow")) /\ oldpos' = pos
           ELSE IF SignBit(new_oldpos)
           THEN ApplyReturn(Err("InvalidData", "Seek underflow")) /\ oldpos' = pos
           ELSE oldpos' = new_oldpos /\ UNCHANGED <<apc, ret>>

\* The COPY step of a tuple and what follows it.
CopyStep(out, pos, dpos, copy_len, seek_amount) ==
    IF copy_len = ZeroW
    THEN SeekStep(out, pos, dpos, extra_pos, seek_amount)
    ELSE IF Exhausted(extra_pos, copy_len, Len(extra_data))
    THEN /\ ApplyReturn(Err("InvalidData", "Extra data exhausted"))
         /\ new' = out /\ oldpos' = pos /\ diff_pos' = dpos
         /\ UNCHANGED extra_pos
    ELSE LET n == WNat(copy_len)
         IN  SeekStep(out \o Slice(extra_data, extra_pos, extra_pos + n),
                      pos, dpos, extra_pos + n, seek_amount)

\* The ADD step of a tuple and what follows it.
AddStep(add_len, copy_len, seek_amount) ==
    IF add_len = ZeroW
    THEN CopyStep(new, oldpos, diff_pos, copy_len, seek_amount)
    ELSE IF Exhausted(diff_pos, add_len, Len(diff_data))
    THEN /\ ApplyReturn(Err("InvalidData", "Diff data exhausted"))
         /\ UNCHANGED <<new, oldpos, diff_pos, extra_pos>>
    ELSE LET n == WNat(add_len)
         IN  CopyStep(new \o AddBytes(old, oldpos, diff_data, diff_pos, n),
                      SaturatingAdd(oldpos, add_len), diff_pos + n,
                      copy_len, seek_amount)

\* One pass of the tuple loop of patch_bsdf2.
PatchBsdf2Tuple ==
    /\ apc = "loop"
    /\ ctrl_idx < Len(control_data)
    /\ IF ctrl_idx + 24 > Len(control_data)
       THEN /\ ApplyReturn(Err("InvalidData", "Incomplete control tuple"))
            /\ UNCHANGED <<new, oldpos, diff_pos, extra_pos, ctrl_idx>>
       ELSE LET add_len ==
                    offtin_bsdf2(Slice(control_data, ctrl_idx, ctrl_idx + 8))
                copy_len ==
                    offtin_bsdf2(Slice(control_data, ctrl_idx + 8, ctrl_idx + 16))
                seek_amount ==
                    offtin_bsdf2(Slice(control_data, ctrl_idx + 16, ctrl_idx + 24))
            IN  /\ ctrl_idx' = ctrl_idx + 24
                /\ IF SignBit(add_len) \/ SignBit(copy_len)
                   THEN /\ ApplyReturn(Err("InvalidData",
                                           "Negative length in control tuple"))
                        /\ UNCHANGED <<new, oldpos, diff_pos, extra_pos>>
                   ELSE IF ExceedsNewSize(Len(new), add_len, copy_len, new_size)
                   THEN /\ ApplyReturn(Err("InvalidData",
                                           "Control tuple would exceed new_size"))
                        /\ UNCHANGED <<new, oldpos, diff_pos, extra_pos>>
                   ELSE AddStep(add_len, copy_len, seek_amount)
    /\ UNCHANGED <<old, patch_data, new_size, control_data, diff_data,
                   extra_data, new0>>

\* PatchBsdf2Finish validating the output size only.
PatchBsdf2Finish_size_only ==
    /\ apc = "loop"
    /\ ~(ctrl_idx < Len(control_data))
    /\ IF NatW(Len(new)) # new_size
       THEN ApplyReturn(Err("InvalidData", "Final size mismatch"))
       ELSE ApplyReturn(Ok)
    /\ UNCHANGED <<old, patch_data, new, new_size, control_data, diff_data,
                   extra_data, oldpos, diff_pos, extra_pos, ctrl_idx, new0>>

\* patch_bsdf2 after the tuple loop: the final state is validated.
PatchBsdf2Finish ==
    /\ apc = "loop"
    /\ ~(ctrl_idx < Len(control_data))
    /\ IF NatW(Len(new)) # new_size
       THEN ApplyReturn(Err("InvalidData", "Final size mismatch"))
       ELSE IF diff_pos # Len(diff_data)
       THEN ApplyReturn(Err("InvalidData", "Diff data not fully consumed"))
       ELSE IF extra_pos # Len(extra_data)
       THEN ApplyReturn(Err("InvalidData", "Extra data not fully consumed"))
       ELSE ApplyReturn(Ok)
    /\ UNCHANGED <<old, patch_data, new, new_size, control_data, diff_data,
                   extra_data, oldpos, diff_pos, extra_pos, ctrl_idx, new0>>

----------------------------------------------------------------------------
(* The container writer Bsdf2Writer *)

\* Bsdf2Writer::new
NewWriter(ctrl_alg, diff_alg, extra_alg) ==
    [ctrl_data |-> <<>>, diff_data |-> <<>>, extra_data |-> <<>>,
     ctrl_alg |-> ctrl_alg, diff_alg |-> diff_alg, extra_alg |-> extra_alg,
     written_output |-> ZeroW]

\* Bsdf2Writer::new_legacy
NewLegacyWriter == NewWriter(AlgBz2, AlgBz2, AlgBz2)

\* A ControlEntry of three i64.
ControlEntry(diff_size, extra_size, offset_increment) ==
    [diff_size |-> diff_size, extra_size |-> extra_size,
     offset_increment |-> offset_increment]

\* written_output += diff_size as u64, the extra_size forgotten.
AddToWritten_diff_only(written, entry) == {WAdd(written, entry.diff_size)}

\* What written_output += (diff_size + extra_size) as u64 can leave in
\* written_output: the sum, wrapped where it overflows in the build without
\* overflow checks; <<>> stands for the panic of the build with them.
AddToWritten(written, entry) ==
    LET sum == WAdd(entry.diff_size, entry.extra_size)
    IN  (IF SOverflows(entry.diff_size, entry.extra_size) \/ UOverflows(written, sum)
         THEN {<<>>} ELSE {})
        \cup {WAdd(written, sum)}

\* The sets of outcomes of three encoder calls, as outcomes of 24 bytes.
Encode3(a, b, c) ==
    { IF ea.panic \/ eb.panic \/ ec.panic THEN Panicked
      ELSE Wrote(ea.bytes \o eb.bytes \o ec.bytes) :
        ea \in encode_int64(a), eb \in encode_int64(b), ec \in encode_int64(c) }

\* Bsdf2Writer::add_control_entry
AddControlEntry(entry) ==
    /\ wpc = "open"
    /\ \E e \in Encode3(entry.diff_size, entry.extra_size, entry.offset_increment),
          w \in AddToWritten(writer.written_output, entry) :
          IF e.panic
          THEN wpc' = "panicked" /\ UNCHANGED writer
          ELSE IF w = <<>>
          THEN /\ wpc' = "panicked"
               /\ writer' = [writer EXCEPT !.ctrl_data = @ \o e.bytes]
          ELSE /\ wpc' = "open"
               /\ writer' = [writer EXCEPT !.ctrl_data = @ \o e.bytes,
                                           !.written_output = w]
    /\ calls' = Append(calls, [op |-> "entry", arg |-> <<entry.diff_size,
                                  entry.extra_size, entry.offset_increment>>])
    /\ UNCHANGED sink

\* Bsdf2Writer::write_diff_stream
WriteDiffStream(data) ==
    /\ wpc = "open"
    /\ writer' = [writer EXCEPT !.diff_data = @ \o data]
    /\ calls' = Append(calls, [op |-> "diff", arg |-> data])
    /\ UNCHANGED <<sink, wpc>>

\* Bsdf2Writer::write_extra_stream
WriteExtraStream(data) ==
    /\ wpc = "open"
    /\ writer' = [writer EXCEPT !.extra_data = @ \o data]
    /\ calls' = Append(calls, [op |-> "extra", arg |-> data])
    /\ UNCHANGED <<sink, wpc>>

\* Bsdf2Writer::write_header: the outcomes of writing the 32 bytes.
write_header(self, is_legacy, ctrl_size, diff_size) ==
    LET magic == IF is_legacy THEN BSDIFF_MAGIC
                 ELSE BSDF2_MAGIC \o <<as_u8(self.ctrl_alg), as_u8(self.diff_alg),
                                       as_u8(self.extra_alg)>>
    IN  { IF e.panic THEN Panicked ELSE Wrote(magic \o e.bytes) :
            e \in Encode3(NatW(ctrl_size), NatW(diff_size), self.written_output) }

\* close taking the control tag alone for the legacy form.
close_legacy_by_ctrl(self) ==
    { IF h.panic THEN Panicked
      ELSE Wrote(h.bytes \o compress(self.ctrl_alg, self.ctrl_data)
                   \o compress(self.diff_alg, self.diff_data)
                   \o compress(self.extra_alg, self.extra_data)) :
        h \in write_header(self, self.ctrl_alg = AlgBz2,
                           Len(compress(self.ctrl_alg, self.ctrl_data)),
                           Len(compress(self.diff_alg, self.diff_data))) }

\* Bsdf2Writer::close: the outcomes of writing the patch to the sink.
close(self) ==
    LET ctrl_compressed == compress(self.ctrl_alg, self.ctrl_data)
        diff_compressed == compress(self.diff_alg, self.diff_data)
        extra_compressed == compress(self.extra_alg, self.extra_data)
        is_legacy == /\ self.ctrl_alg = AlgBz2
                     /\ self.diff_alg = AlgBz2
                     /\ self.extra_alg = AlgBz2
    IN  { IF h.panic THEN Panicked
          ELSE Wrote(h.bytes \o ctrl_compressed \o diff_compressed
                       \o extra_compressed) :
            h \in write_header(self, is_legacy, Len(ctrl_compressed),
                               Len(diff_compressed)) }

\* writer.close(&mut sink)
Close ==
    /\ wpc = "open"
    /\ \E out \in close(writer) :
          IF out.panic
          THEN wpc' = "panicked" /\ UNCHANGED sink
          ELSE wpc' = "closed" /\ sink' = out.bytes
    /\ UNCHANGED <<writer, calls>>

----------------------------------------------------------------------------
(* The suffix sort of diff.rs.  The arrays I and V hold old.len() + 1      *)
(* isize each; element i of an array is element i + 1 of its sequence.     *)
(* An index out of bounds, or a negative isize handed to usz, panics.      *)

\* i is an index of the array A.
InBounds(A, i) == i >= 0 /\ i < Len(A)

\* A with A[i] = v.
Put(A, i, v) == [A EXCEPT ![i + 1] = v]

\* I.swap(a, b)
Swap(A, a, b) == [A EXCEPT ![a + 1] = A[b + 1], ![b + 1] = A[a + 1]]

\* The arrays after a step, or the panic of the step.
Arrays(I, V) == [I |-> I, V |-> V, panic |-> FALSE]

ArraysPanic == [I |-> <<>>, V |-> <<>>, panic |-> TRUE]

\* V[usz(I[q] + h)] can be read.
KeyInBounds(I, V, q, h) == InBounds(I, q) /\ InBounds(V, At(I, q) + h)

\* V[usz(I[q] + h)]
Key(I, V, q, h) == At(V, At(I, q) + h)

RECURSIVE SetRank(_, _, _, _, _)
\* for &Ii in &I[q..to] { V[usz(Ii)] = rank }
SetRank(I, V, q, to, rank) ==
    IF q >= to THEN V
    ELSE SetRank(I, Put(V, At(I, q), rank), q + 1, to, rank)

\* I[q..to] can be used as indices of V.
RanksInBounds(I, V, q, to) ==
    \A r \in q..(to - 1) : InBounds(I, r) /\ InBounds(V, At(I, r))

RECURSIVE SelectMin(_, _, _, _, _, _, _, _)
\* The inner loop of the small path of split_internal: the elements of the
\* least key among I[k..stop] are swapped to I[k..k + j].
SelectMin(I, V, k, i, j, xk, stop, h) ==
    IF ~(k + i < stop) THEN [I |-> I, j |-> j, panic |-> FALSE]
    ELSE IF ~KeyInBounds(I, V, k + i, h) THEN [I |-> I, j |-> j, panic |-> TRUE]
    ELSE LET v == Key(I, V, k + i, h)
             x1 == IF v < xk THEN v ELSE xk
             j1 == IF v < xk THEN 0 ELSE j
         IN  IF v = x1
             THEN SelectMin(Swap(I, k + j1, k + i), V, k, i + 1, j1 + 1, x1,
                            stop, h)
             ELSE SelectMin(I, V, k, i + 1, j1, x1, stop, h)

RECURSIVE SplitSmall(_, _, _, _, _)
\* The small path of split_internal (len < 16), from I[k] on.
SplitSmall(I, V, k, stop, h) ==
    IF ~(k < stop) THEN Arrays(I, V)
    ELSE IF ~KeyInBounds(I, V, k, h) THEN ArraysPanic
    ELSE LET s == SelectMin(I, V, k, 1, 1, Key(I, V, k, h), stop, h)
         IN  IF s.panic \/ ~RanksInBounds(s.I, V, k, k + s.j) THEN ArraysPanic
             ELSE SplitSmall(IF s.j = 1 THEN Put(s.I, k, -1) ELSE s.I,
                             SetRank(s.I, V, k, k + s.j, k + s.j - 1),
                             k + s.j, stop, h)

RECURSIVE PartitionLess(_, _, _, _, _, _, _, _, _)
\* The first loop of the three-way partition: I[start..jj] gets the keys
\* less than xk.
PartitionLess(I, V, i, j, k, jj, kk, xk, h) ==
    IF ~(i < jj) THEN [I |-> I, j |-> j, k |-> k, panic |-> FALSE]
    ELSE IF ~KeyInBounds(I, V, i, h)
    THEN [I |-> I, j |-> j, k |-> k, panic |-> TRUE]
    ELSE LET v == Key(I, V, i, h)
         IN  IF v < xk THEN PartitionLess(I, V, i + 1, j, k, jj, kk, xk, h)
             ELSE IF v = xk
             THEN IF ~InBounds(I, jj + j)
                  THEN [I |-> I, j |-> j, k |-> k, panic |-> TRUE]
                  ELSE PartitionLess(Swap(I, i, jj + j), V, i, j + 1, k, jj,
                                     kk, xk, h)
             ELSE IF ~InBounds(I, kk + k)
                  THEN [I |-> I, j |-> j, k |-> k, panic |-> TRUE]
                  ELSE PartitionLess(Swap(I, i, kk + k), V, i, j, k + 1, jj,
                                     kk, xk, h)

RECURSIVE PartitionEqual(_, _, _, _, _, _, _, _)
\* The second loop of the three-way partition: I[jj..kk] gets the keys
\* equal to xk.
PartitionEqual(I, V, j, k, jj, kk, xk, h) ==
    IF ~(jj + j < kk) THEN [I |-> I, panic |-> FALSE]
    ELSE IF ~KeyInBounds(I, V, jj + j, h) THEN [I |-> I, panic |-> TRUE]
    ELSE IF Key(I, V, jj + j, h) = xk
    THEN PartitionEqual(I, V, j + 1, k, jj, kk, xk, h)
    ELSE IF ~InBounds(I, kk + k) THEN [I |-> I, panic |-> TRUE]
    ELSE PartitionEqual(Swap(I, jj + j, kk + k), V, j, k + 1, jj, kk, xk, h)

\* The least length sorted by the three-way partition.
SmallLimit == 16

\* The large path of split_internal up to its call of split: the pivot key,
\* the counts of the keys below and equal to it, and the two partition
\* loops.  I[start..jj] holds the keys below, I[jj..kk] the keys equal.
Partition(I, V, start, len, h) ==
    IF \E q \in start..(start + len - 1) : ~KeyInBounds(I, V, q, h)
    THEN [I |-> I, jj |-> 0, kk |-> 0, panic |-> TRUE]
    ELSE LET xk == Key(I, V, start + len \div 2, h)
             jj == start + Cardinality({q \in start..(start + len - 1) :
                                          Key(I, V, q, h) < xk})
             kk == jj + Cardinality({q \in start..(start + len - 1) :
                                       Key(I, V, q, h) = xk})
             p1 == PartitionLess(I, V, start, 0, 0, jj, kk, xk, h)
             p2 == PartitionEqual(p1.I, V, p1.j, p1.k, jj, kk, xk, h)
         IN  IF p1.panic THEN [I |-> I, jj |-> jj, kk |-> kk, panic |-> TRUE]
             ELSE [I |-> p2.I, jj |-> jj, kk |-> kk, panic |-> p2.panic]

\* A call of split_internal that is still to be made, and the rest of a
\* call of split_internal that waits for split on its left partition.
SplitCall(start, len) == [rest |-> FALSE, start |-> start, len |-> len]

SplitRest(jj, kk) == [rest |-> TRUE, start |-> jj, len |-> kk - jj]

RECURSIVE SplitStack(_, _, _, _)
\* split and split_internal, with the calls to be made kept in the stack
\* calls, in the order the code makes them: the small path, or the
\* partition, split on the left partition, the ranks of the keys equal to
\* the pivot, and (the loop of split on the SplitParams returned)
\* split_internal on the right partition.
SplitStack(I, V, calls_left, h) ==
    IF calls_left = <<>> THEN Arrays(I, V)
    ELSE LET c == Head(calls_left)
             jj == c.start
             kk == c.start + c.len
             small == SplitSmall(I, V, c.start, c.start + c.len, h)
             p == Partition(I, V, c.start, c.len, h)
         IN  IF c.rest
             THEN IF ~RanksInBounds(I, V, jj, kk) THEN ArraysPanic
                  ELSE SplitStack(IF jj = kk - 1 THEN Put(I, jj, -1) ELSE I,
                                  SetRank(I, V, jj, kk, kk - 1),
                                  Tail(calls_left), h)
             ELSE IF c.len < SmallLimit
             THEN IF small.panic THEN ArraysPanic
                  ELSE SplitStack(small.I, small.V, Tail(calls_left), h)
             ELSE IF p.panic THEN ArraysPanic
             ELSE SplitStack(p.I, V,
                             (IF p.jj > c.start
                              THEN <<SplitCall(c.start, p.jj - c.start)>>
                              ELSE <<>>)
                             \o <<SplitRest(p.jj, p.kk)>>
                             \o (IF c.start + c.len > p.kk
                                 THEN <<SplitCall(p.kk, c.start + c.len - p.kk)>>
                                 ELSE <<>>)
                             \o Tail(calls_left),
                             h)

\* split(I, V, start, len, h)
split(I, V, start, len, h) == SplitStack(I, V, <<SplitCall(start, len)>>, h)

\* buckets after the occurrences are counted, summed and shifted: the
\* start position of each byte value.
BucketStarts(bytes) ==
    [c \in Byte |-> Cardinality({i \in 1..Len(bytes) : bytes[i] < c})]

RECURSIVE PlaceSuffixes(_, _, _, _)
\* Each suffix i is placed at the next position of the bucket of old[i].
PlaceSuffixes(I, buckets, bytes, i) ==
    IF i >= Len(bytes) THEN [I |-> I, buckets |-> buckets]
    ELSE LET c == At(bytes, i)
         IN  PlaceSuffixes(Put(I, buckets[c] + 1, i),
                           [buckets EXCEPT ![c] = @ + 1], bytes, i + 1)

\* for i in 1..256 { if buckets[i] == buckets[i - 1] + 1 { I[buckets[i]] = -1 } }
\* Every write stores -1, so the order of the writes is immaterial.
MarkSingletons(I, buckets) ==
    [r \in 1..Len(I) |->
        IF \E i \in 1..255 : buckets[i] = r - 1 /\ buckets[i] = buckets[i - 1] + 1
        THEN -1 ELSE I[r]]

\* vec![0; old.len() + 1]
Zeros(n) == [i \in 1..n |-> 0]

\* qsufsort up to its refinement loop: the bucket sort on the first byte.
QsufsortBuckets(bytes) ==
    LET n == Len(bytes)
        placed == PlaceSuffixes(Zeros(n + 1), BucketStarts(bytes), bytes, 0)
        V1 == [i \in 1..(n + 1) |->
                  IF i <= n THEN placed.buckets[bytes[i]] ELSE 0]
        I1 == MarkSingletons(Put(placed.I, 0, n), placed.buckets)
    IN  Arrays(Put(I1, 0, -1), V1)

RECURSIVE QsufsortScan(_, _, _, _, _, _)
\* One pass of the refinement loop of qsufsort over I, from position i with
\* len sorted elements behind it.
QsufsortScan(I, V, i, len, h, n) ==
    IF ~(i < n + 1)
    THEN IF len # 0
         THEN IF InBounds(I, i - len) THEN Arrays(Put(I, i - len, -len), V)
              ELSE ArraysPanic
         ELSE Arrays(I, V)
    ELSE IF ~InBounds(I, i) THEN ArraysPanic
    ELSE IF At(I, i) < 0
    THEN QsufsortScan(I, V, i - At(I, i), len - At(I, i), h, n)
    ELSE IF len # 0 /\ ~InBounds(I, i - len) THEN ArraysPanic
    ELSE IF ~InBounds(V, At(I, i)) THEN ArraysPanic
    ELSE LET I1 == IF len # 0 THEN Put(I, i - len, -len) ELSE I
             len1 == At(V, At(I1, i)) + 1 - i
             s == split(I1, V, i, len1, h)
         IN  IF len1 < 0 THEN ArraysPanic
             ELSE IF s.panic THEN ArraysPanic
             ELSE QsufsortScan(s.I, s.V, i + len1, 0, h, n)

\* qsufsort returning without the inversion of V into I.
InvertRanks_skipped(I, V, i) == Arrays(I, V)

RECURSIVE InvertRanks(_, _, _)
\* for (i, &v) in V[0..=old.len()].iter().enumerate() { I[usz(v)] = i }
InvertRanks(I, V, i) ==
    IF i >= Len(V) THEN Arrays(I, V)
    ELSE IF ~InBounds(I, At(V, i)) THEN ArraysPanic
    ELSE InvertRanks(Put(I, At(V, i), i), V, i + 1)

----------------------------------------------------------------------------
(* The differ of diff.rs *)

RECURSIVE MatchFrom(_, _, _)
\* The number of equal bytes of a and b from position k on.
MatchFrom(a, b, k) ==
    IF k < Len(a) /\ k < Len(b) /\ At(a, k) = At(b, k)
    THEN MatchFrom(a, b, k + 1)
    ELSE k

\* matchlen: the length of the common prefix of two slices.
matchlen(a, b) == MatchFrom(a, b, 0)

RECURSIVE LessFrom(_, _, _)
\* a < b for two slices of one length, decided from position k on.
LessFrom(a, b, k) ==
    IF k >= Len(a) THEN FALSE
    ELSE IF At(a, k) # At(b, k) THEN At(a, k) < At(b, k)
    ELSE LessFrom(a, b, k + 1)

\* What search returns, or its panic.
Found(p, l) == [pos |-> p, len |-> l, panic |-> FALSE]

SearchPanic == [pos |-> 0, len |-> 0, panic |-> TRUE]

\* &old[usz(i)..] can be taken.
SuffixInBounds(bytes, i) == i >= 0 /\ i <= Len(bytes)

RECURSIVE search(_, _, _, _, _)
\* search on the slice I[lo..=hi] of the suffix array.
search(I, lo, hi, bytes, target) ==
    IF hi - lo + 1 < 3
    THEN IF ~SuffixInBounds(bytes, At(I, lo)) \/ ~SuffixInBounds(bytes, At(I, hi))
         THEN SearchPanic
         ELSE LET xl == matchlen(Slice(bytes, At(I, lo), Len(bytes)), target)
                  yl == matchlen(Slice(bytes, At(I, hi), Len(bytes)), target)
              IN  IF xl > yl THEN Found(At(I, lo), xl) ELSE Found(At(I, hi), yl)
    ELSE LET mid == lo + (hi - lo) \div 2
         IN  IF ~SuffixInBounds(bytes, At(I, mid)) THEN SearchPanic
             ELSE LET left == Slice(bytes, At(I, mid), Len(bytes))
                      len_to_check == IF Len(left) < Len(target) THEN Len(left)
                                      ELSE Len(target)
                  IN  IF LessFrom(Slice(left, 0, len_to_check),
                                  Slice(target, 0, len_to_check), 0)
                      THEN search(I, mid, hi, bytes, target)
                      ELSE search(I, lo, mid, bytes, target)

\* The i64 of an isize of small magnitude (`as i64`).
IntW(i) == IF i >= 0 THEN NatW(i) ELSE WNeg(NatW(-i))

\* at as isize + lastoffset < old.len() as isize && old[usz(..)] == new[at]:
\* the byte of new at `at` equals the byte of old the last match pairs it
\* with.  A negative index is the panic of usz.
AlignedEqual(bytes, target, at, lastoffset) ==
    at + lastoffset < Len(bytes) /\ At(bytes, at + lastoffset) = At(target, at)

AlignedPanics(bytes, target, at, lastoffset) ==
    at + lastoffset < 0 \/ at >= Len(target)

\* The scoring loop running scsc up to scan + len without counting.
ScoreOverlap_counts_nothing(bytes, target, scsc, stop, oldscore, lastoffset) ==
    [scsc |-> IF scsc < stop THEN stop ELSE scsc, oldscore |-> oldscore,
     panic |-> FALSE]

RECURSIVE ScoreOverlap(_, _, _, _, _, _)
\* while scsc < scan + len { if .. { oldscore += 1 } scsc += 1 }
ScoreOverlap(bytes, target, scsc, stop, oldscore, lastoffset) ==
    IF ~(scsc < stop) THEN [scsc |-> scsc, oldscore |-> oldscore, panic |-> FALSE]
    ELSE IF AlignedPanics(bytes, target, scsc, lastoffset)
    THEN [scsc |-> scsc, oldscore |-> oldscore, panic |-> TRUE]
    ELSE ScoreOverlap(bytes, target, scsc + 1, stop,
                      IF AlignedEqual(bytes, target, scsc, lastoffset)
                      THEN oldscore + 1 ELSE oldscore,
                      lastoffset)

\* len > oldscore + 8 on usize.  A negative oldscore is one that wrapped
\* below zero (2^64 + oldscore): its sum with 8 wraps back from -8 on.
ExceedsScore(len, oldscore) ==
    IF oldscore + 8 < 0 THEN FALSE ELSE len > oldscore + 8

\* The locals of bsdiff_internal after its match loop; wrapped is set when
\* oldscore -= 1 went below zero, which panics with overflow checks.
Matched(scan, pos, len, oldscore, wrapped) ==
    [scan |-> scan, pos |-> pos, len |-> len, oldscore |-> oldscore,
     wrapped |-> wrapped, panic |-> FALSE]

MatchPanic ==
    [scan |-> 0, pos |-> 0, len |-> 0, oldscore |-> 0, wrapped |-> FALSE,
     panic |-> TRUE]

RECURSIVE FindMatch(_, _, _, _, _, _, _, _, _, _)
\* The match loop of bsdiff_internal: scan advances until search finds a
\* match that beats extending the last one.
FindMatch(I, bytes, target, scan, scsc, oldscore, pos, len, lastoffset, wrapped) ==
    IF ~(scan < Len(target)) THEN Matched(scan, pos, len, oldscore, wrapped)
    ELSE LET m == search(I, 0, Len(bytes), bytes, Slice(target, scan, Len(target)))
             sc == ScoreOverlap(bytes, target, scsc, scan + m.len, oldscore,
                                lastoffset)
         IN  IF m.panic THEN MatchPanic
             ELSE IF m.pos < 0 THEN MatchPanic
             ELSE IF sc.panic THEN MatchPanic
             ELSE IF \/ m.len = sc.oldscore /\ m.len # 0
                     \/ ExceedsScore(m.len, sc.oldscore)
             THEN Matched(scan, m.pos, m.len, sc.oldscore, wrapped)
             ELSE IF AlignedPanics(bytes, target, scan, lastoffset) THEN MatchPanic
             ELSE IF AlignedEqual(bytes, target, scan, lastoffset)
             THEN FindMatch(I, bytes, target, scan + 1, sc.scsc, sc.oldscore - 1,
                            m.pos, m.len, lastoffset,
                            wrapped \/ sc.oldscore = 0)
             ELSE FindMatch(I, bytes, target, scan + 1, sc.scsc, sc.oldscore,
                            m.pos, m.len, lastoffset, wrapped)

RECURSIVE ForwardExtent(_, _, _, _, _, _, _, _, _)
\* The forward loop: the length lenf from lastscan/lastpos that matches best.
ForwardExtent(bytes, target, lastscan, lastpos, scan, i, s, Sf, lenf) ==
    IF ~(lastscan + i < scan /\ lastpos + i < Len(bytes)) THEN lenf
    ELSE LET s1 == IF At(bytes, lastpos + i) = At(target, lastscan + i)
                   THEN s + 1 ELSE s
             i1 == i + 1
         IN  IF s1 * 2 - i1 <= Sf * 2 - lenf
             THEN ForwardExtent(bytes, target, lastscan, lastpos, scan, i1, s1,
                                Sf, lenf)
             ELSE ForwardExtent(bytes, target, lastscan, lastpos, scan, i1, s1,
                                s1, i1)

RECURSIVE BackwardExtent(_, _, _, _, _, _, _, _, _)
\* The backward loop: the length lenb before scan/pos that matches best.
BackwardExtent(bytes, target, lastscan, scan, pos, i, s, Sb, lenb) ==
    IF ~(scan >= lastscan + i /\ pos >= i) THEN lenb
    ELSE LET s1 == IF At(bytes, pos - i) = At(target, scan - i)
                   THEN s + 1 ELSE s
         IN  IF s1 * 2 - i > Sb * 2 - lenb
             THEN BackwardExtent(bytes, target, lastscan, scan, pos, i + 1, s1,
                                 s1, i)
             ELSE BackwardExtent(bytes, target, lastscan, scan, pos, i + 1, s1,
                                 Sb, lenb)

RECURSIVE OverlapSplit(_, _, _, _, _, _, _, _, _)
\* The overlap loop: lens, the part of the overlap left to the forward match.
\* nf and of are the positions of the overlap in new and old for the
\* forward match, nb and ob those for the backward match.
OverlapSplit(bytes, target, nf, of, nb, ob, i, overlap, acc) ==
    IF i >= overlap THEN acc.lens
    ELSE LET s1 == IF At(target, nf + i) = At(bytes, of + i)
                   THEN acc.s + 1 ELSE acc.s
             s2 == IF At(target, nb + i) = At(bytes, ob + i) THEN s1 - 1 ELSE s1
         IN  OverlapSplit(bytes, target, nf, of, nb, ob, i + 1, overlap,
                          IF s2 > acc.Ss
                          THEN [s |-> s2, Ss |-> s2, lens |-> i + 1]
                          ELSE [acc EXCEPT !.s = s2])

\* The diff bytes as old - new.
DiffBytes_old_minus_new(bytes, target, lastscan, lastpos, lenf) ==
    [i \in 1..lenf |->
        (At(bytes, lastpos + i - 1) + 256 - At(target, lastscan + i - 1)) % 256]

\* new[lastscan..lastscan + lenf] - old[lastpos..lastpos + lenf], byte by
\* byte, wrapping.
DiffBytes(bytes, target, lastscan, lastpos, lenf) ==
    [i \in 1..lenf |->
        (At(target, lastscan + i - 1) + 256 - At(bytes, lastpos + i - 1)) % 256]

\* The three offtout calls of a control tuple, as outcomes of 24 bytes.
Offtout3(a, b, c) ==
    { IF ea.panic \/ eb.panic \/ ec.panic THEN Panicked
      ELSE Wrote(ea.bytes \o eb.bytes \o ec.bytes) :
        ea \in offtout(IntW(a)), eb \in offtout(IntW(b)), ec \in offtout(IntW(c)) }

\* The locals with lastscan set to scan, not to scan - lenb.
Locals_lastscan_at_scan(scan, len, pos, lastscan, lastpos, lastoffset) ==
    [scan |-> scan, len |-> len, pos |-> pos, lastscan |-> scan,
     lastpos |-> lastpos, lastoffset |-> lastoffset]

\* The locals of bsdiff_internal that live across passes of its outer loop.
Locals(scan, len, pos, lastscan, lastpos, lastoffset) ==
    [scan |-> scan, len |-> len, pos |-> pos, lastscan |-> lastscan,
     lastpos |-> lastpos, lastoffset |-> lastoffset]

\* The part of a pass of the outer loop after the match loop left scan, pos
\* and len in m: the extents of the forward and backward matches, the
\* control tuple, the diff and extra bytes and the locals of the next pass.
Emit(bytes, target, l, m) ==
    LET lenf0 == ForwardExtent(bytes, target, l.lastscan, l.lastpos, m.scan,
                               0, 0, 0, 0)
        lenb0 == IF m.scan < Len(target)
                 THEN BackwardExtent(bytes, target, l.lastscan, m.scan, m.pos,
                                     1, 0, 0, 0)
                 ELSE 0
        overlap == l.lastscan + lenf0 - (m.scan - lenb0)
        lens == IF overlap > 0
                THEN OverlapSplit(bytes, target,
                                  l.lastscan + lenf0 - overlap,
                                  l.lastpos + lenf0 - overlap,
                                  m.scan - lenb0, m.pos - lenb0, 0, overlap,
                                  [s |-> 0, Ss |-> 0, lens |-> 0])
                ELSE 0
        lenf == IF overlap > 0 THEN lenf0 + lens - overlap ELSE lenf0
        lenb == IF overlap > 0 THEN lenb0 - lens ELSE lenb0
        write_len == m.scan - lenb - (l.lastscan + lenf)
        write_start == l.lastscan + lenf
    IN  [panic |-> lenf < 0 \/ lenb < 0 \/ write_len < 0 \/ m.pos - lenb < 0,
         lenf |-> lenf, lenb |-> lenb,
         ctrl |-> <<lenf, write_len, m.pos - lenb - (l.lastpos + lenf)>>,
         diff |-> DiffBytes(bytes, target, l.lastscan, l.lastpos, lenf),
         extra |-> Slice(target, write_start, write_start + write_len),
         next |-> Locals(m.scan, m.len, m.pos, m.scan - lenb, m.pos - lenb,
                         m.pos - m.scan)]

\* The pass ends with a tuple and its diff bytes written, the extra bytes
\* left out.
BsdiffWrite_without_extra(e) ==
    \E c \in Offtout3(e.ctrl[1], e.ctrl[2], e.ctrl[3]) :
        IF e.panic \/ c.panic
        THEN dpc' = "panicked" /\ UNCHANGED <<differ, patch_stream, tuples>>
        ELSE /\ patch_stream' = patch_stream \o c.bytes \o e.diff
             /\ tuples' = Append(tuples, [ctrl |-> e.ctrl, diff |-> e.diff,
                                          extra |-> <<>>])
             /\ differ' = e.next
             /\ UNCHANGED dpc

\* The pass ends with a tuple written to the writer.
BsdiffWrite(e) ==
    \E c \in Offtout3(e.ctrl[1], e.ctrl[2], e.ctrl[3]) :
        IF e.panic \/ c.panic
        THEN dpc' = "panicked" /\ UNCHANGED <<differ, patch_stream, tuples>>
        ELSE /\ patch_stream' = patch_stream \o c.bytes \o e.diff \o e.extra
             /\ tuples' = Append(tuples, [ctrl |-> e.ctrl, diff |-> e.diff,
                                          extra |-> e.extra])
             /\ differ' = e.next
             /\ UNCHANGED dpc

\* The pass goes on to write a tuple where the code continues.
BsdiffContinue_writes_tuple(m) ==
    BsdiffWrite(Emit(diff_old, diff_new, differ, m))

\* The pass ends without a tuple.
BsdiffContinue(m) ==
    /\ differ' = [differ EXCEPT !.scan = m.scan, !.len = m.len, !.pos = m.pos]
    /\ UNCHANGED <<patch_stream, tuples>>

\* bsdiff_internal up to its outer loop: the arrays are allocated and the
\* locals set.
BsdiffEnter ==
    /\ dpc = "call"
    /\ suffix' = QsufsortBuckets(diff_old)
    /\ sufh' = 1
    /\ dpc' = "qsufsort"
    /\ UNCHANGED <<diff_old, diff_new, differ, patch_stream, tuples>>

\* One pass of the refinement loop of qsufsort.
QsufsortPass ==
    /\ dpc = "qsufsort"
    /\ At(suffix.I, 0) # -(Len(diff_old) + 1)
    /\ LET a == QsufsortScan(suffix.I, suffix.V, 0, 0, sufh, Len(diff_old))
       IN  IF a.panic THEN dpc' = "panicked" /\ UNCHANGED <<suffix, sufh>>
           ELSE suffix' = a /\ sufh' = sufh + sufh /\ UNCHANGED dpc
    /\ UNCHANGED <<diff_old, diff_new, differ, patch_stream, tuples>>

\* qsufsort after its refinement loop: the ranks V are inverted into I and
\* qsufsort returns.
QsufsortReturn ==
    /\ dpc = "qsufsort"
    /\ At(suffix.I, 0) = -(Len(diff_old) + 1)
    /\ LET a == InvertRanks(suffix.I, suffix.V, 0)
       IN  IF a.panic THEN dpc' = "panicked" /\ UNCHANGED suffix
           ELSE suffix' = a /\ dpc' = "loop"
    /\ UNCHANGED <<diff_old, diff_new, sufh, differ, patch_stream, tuples>>

\* The outer loop as a loop that tests scan < new.len() after its body.
BsdiffPass_test_after_body ==
    /\ dpc = "loop"
    /\ differ.scan < Len(diff_new) \/ tuples = <<>>
    /\ LET scan0 == differ.scan + differ.len
           m == FindMatch(suffix.I, diff_old, diff_new, scan0, scan0, 0,
                          differ.pos, differ.len, differ.lastoffset, FALSE)
       IN  IF m.panic THEN dpc' = "panicked"
                           /\ UNCHANGED <<differ, patch_stream, tuples>>
           ELSE IF ~(m.len # m.oldscore \/ m.scan = Len(diff_new))
           THEN BsdiffContinue(m) /\ UNCHANGED dpc
           ELSE BsdiffWrite(Emit(diff_old, diff_new, differ, m))
    /\ UNCHANGED <<diff_old, diff_new, suffix, sufh>>

\* One pass of the outer loop of bsdiff_internal.
BsdiffPass ==
    /\ dpc = "loop"
    /\ differ.scan < Len(diff_new)
    /\ LET scan0 == differ.scan + differ.len
           m == FindMatch(suffix.I, diff_old, diff_new, scan0, scan0, 0,
                          differ.pos, differ.len, differ.lastoffset, FALSE)
       IN  IF m.panic THEN dpc' = "panicked"
                           /\ UNCHANGED <<differ, patch_stream, tuples>>
           ELSE \E build \in (IF m.wrapped THEN {"checked", "wrapping"}
                              ELSE {"wrapping"}) :
                  IF build = "checked"
                  THEN dpc' = "panicked"
                       /\ UNCHANGED <<differ, patch_stream, tuples>>
                  ELSE IF ~(m.len # m.oldscore \/ m.scan = Len(diff_new))
                  THEN BsdiffContinue(m) /\ UNCHANGED dpc
                  ELSE BsdiffWrite(Emit(diff_old, diff_new, differ, m))
    /\ UNCHANGED <<diff_old, diff_new, suffix, sufh>>

\* bsdiff_internal after its outer loop: Ok(()).
BsdiffReturn ==
    /\ dpc = "loop"
    /\ ~(differ.scan < Len(diff_new))
    /\ dpc' = "returned"
    /\ UNCHANGED <<diff_old, diff_new, suffix, sufh, differ, patch_stream,
                   tuples>>

----------------------------------------------------------------------------
(* The streaming applier of patch.rs *)

Min(a, b) == IF a < b THEN a ELSE b

RECURSIVE read_or_eof_partial_is_eof(_, _, _, _)
\* read_or_eof taking the end of the input inside the 24 bytes for a clean
\* end of the input.
read_or_eof_partial_is_eof(stream, at, chunk, got) ==
    LET n == Min(chunk, Min(Len(stream) - at, 24 - got))
    IN  IF n = 0 THEN [ret |-> Ok, eof |-> TRUE, at |-> at]
        ELSE IF n >= 24 - got THEN [ret |-> Ok, eof |-> FALSE, at |-> at + n]
        ELSE read_or_eof_partial_is_eof(stream, at + n, chunk, got + n)

RECURSIVE read_or_eof(_, _, _, _)
\* read_or_eof on a reader that hands out at most chunk bytes per read: how
\* the 24 bytes were filled (got counts the bytes read so far) and where
\* the reader stands.
read_or_eof(stream, at, chunk, got) ==
    LET n == Min(chunk, Min(Len(stream) - at, 24 - got))
    IN  IF n = 0
        THEN IF got = 0 THEN [ret |-> Ok, eof |-> TRUE, at |-> at]
             ELSE [ret |-> Err("UnexpectedEof", ""), eof |-> FALSE, at |-> at]
        ELSE IF n >= 24 - got THEN [ret |-> Ok, eof |-> FALSE, at |-> at + n]
        ELSE read_or_eof(stream, at + n, chunk, got + n)

\* patch returns r, the output buffer left as out and the reader at `at`.
PatchReturn(r, out, at) ==
    /\ p_ret' = r
    /\ ppc' = "returned"
    /\ p_new' = out
    /\ p_read' = at
    /\ UNCHANGED p_oldpos

\* new[mix_start..mix_end] with old[oldpos..oldpos_end] added, wrapping.
Mix(out, mix_start, bytes, from, n) ==
    [i \in 1..Len(out) |->
        IF i > mix_start /\ i <= mix_start + n
        THEN (out[i] + At(bytes, from + i - mix_start - 1)) % 256
        ELSE out[i]]

\* One pass of the loop of patch.
PatchPass ==
    /\ ppc = "loop"
    /\ LET rd == read_or_eof(p_stream, p_read, p_chunk, 0)
           ctrl == Slice(p_stream, rd.at - 24, rd.at)
           mix_len == offtin(Slice(ctrl, 0, 8))
           copy_len == offtin(Slice(ctrl, 8, 16))
           seek_len == offtin(Slice(ctrl, 16, 24))
           to_read == WAdd(mix_len, copy_len)
           avail == Len(p_stream) - rd.at
           has_read == IF IsSmall(to_read) /\ WNat(to_read) <= avail
                       THEN WNat(to_read) ELSE avail
           copied == p_new \o Slice(p_stream, rd.at, rd.at + has_read)
           at == rd.at + has_read
           oldpos_end == WAdd(p_oldpos, mix_len)
           new_oldpos == WAdd(oldpos_end, seek_len)
       IN  IF rd.ret # Ok THEN PatchReturn(rd.ret, p_new, rd.at)
           ELSE IF rd.eof THEN PatchReturn(Ok, p_new, rd.at)
           ELSE IF SignBit(mix_len) \/ SignBit(copy_len)
           THEN PatchReturn(Err("InvalidData", "Negative length"), p_new, rd.at)
           ELSE IF UOverflows(mix_len, copy_len)
           THEN PatchReturn(Err("InvalidData", ""), p_new, rd.at)
           ELSE IF NatW(has_read) # to_read
           THEN PatchReturn(Err("UnexpectedEof", ""), copied, at)
           ELSE IF UOverflows(p_oldpos, mix_len)
           THEN PatchReturn(Err("InvalidData", ""), copied, at)
           ELSE IF ULt(NatW(Len(p_old)), oldpos_end)
           THEN PatchReturn(Err("UnexpectedEof", ""), copied, at)
           ELSE LET mixed == Mix(copied, Len(p_new), p_old, WNat(p_oldpos),
                                 WNat(mix_len))
                IN  IF SOverflows(oldpos_end, seek_len)
                    THEN PatchReturn(Err("InvalidData", "Seek overflow"),
                                     mixed, at)
                    ELSE IF SignBit(new_oldpos)
                    THEN PatchReturn(Err("InvalidData", "Seek underflow"),
                                     mixed, at)
                    ELSE /\ p_new' = mixed
                         /\ p_read' = at
                         /\ p_oldpos' = new_oldpos
                         /\ UNCHANGED <<ppc, p_ret>>
    /\ UNCHANGED <<p_old, p_stream, p_chunk>>

----------------------------------------------------------------------------
(* The codec on its own: every encoder and decoder applied to an input *)

\* Magnitudes 0..MaxSmall are drawn with both signs.
MaxSmall == 12

\* An integer as a sign and a magnitude (a u64 word); zero has no sign.
Val(neg, mag) == [neg |-> neg, mag |-> mag]

NoVal == Val(FALSE, <<>>)

BigMagnitudes ==
    { NatW(255), NatW(256), NatW(65535), NatW(65536),
      <<0, 0, 0, 128, 0, 0, 0, 0>>, <<0, 0, 0, 0, 1, 0, 0, 0>>,
      <<66, 0, 0, 0, 0, 0, 0, 0>>, <<1, 2, 3, 4, 5, 6, 7, 8>>,
      <<0, 0, 0, 0, 0, 0, 0, 64>>, <<254, 255, 255, 255, 255, 255, 255, 127>>,
      I64Max, I64Min }

CodecValues ==
    { Val(FALSE, NatW(n)) : n \in 0..MaxSmall }
    \cup { Val(TRUE, NatW(n)) : n \in 1..MaxSmall }
    \cup { Val(FALSE, m) : m \in BigMagnitudes \ {I64Min} }
    \cup { Val(TRUE, m) : m \in BigMagnitudes }

\* The little-endian bytes of |x| with bit 63 set exactly when x < 0.
SignMagnitude(v) == IF v.neg THEN SetBit63(v.mag) ELSE v.mag

\* The i64 (two's complement) of an integer in -2^63 .. 2^63-1.
I64Of(v) == IF v.neg THEN WNeg(v.mag) ELSE v.mag

\* Byte patterns handed to the decoders directly.
RawPatterns ==
    { I64Min, <<66, 0, 0, 0, 0, 0, 0, 128>>, <<42, 0, 0, 0, 0, 0, 0, 0>>,
      <<255, 255, 255, 255, 255, 255, 255, 255>>, ZeroW }

Unset == [panic |-> FALSE, bytes |-> <<>>]

CodecInit ==
    /\ enc_w = Unset /\ enc_d = Unset
    /\ dec_b = <<>> /\ dec_p = <<>>
    /\ \/ \E v \in CodecValues : xval = v /\ x = I64Of(v) /\ buf = <<>>
       \/ \E b \in RawPatterns : xval = NoVal /\ x = <<>> /\ buf = b

CodecIdle ==
    /\ x = <<>> /\ xval = NoVal /\ enc_w = Unset /\ enc_d = Unset
    /\ buf = <<>> /\ dec_b = <<>> /\ dec_p = <<>>

\* encode_int64(x, &mut buf) of the writer
EncodeInt64 ==
    /\ x # <<>> /\ enc_w = Unset
    /\ enc_w' \in encode_int64(x)
    /\ UNCHANGED <<x, xval, enc_d, buf, dec_b, dec_p>>

\* offtout(x, &mut buf) of the differ
Offtout ==
    /\ x # <<>> /\ enc_d = Unset
    /\ enc_d' \in offtout(x)
    /\ UNCHANGED <<x, xval, enc_w, buf, dec_b, dec_p>>

\* The bytes an encoder wrote are handed to the decoders.
LoadEncoded ==
    /\ buf = <<>>
    /\ \E e \in {enc_w, enc_d} : e # Unset /\ ~e.panic /\ buf' = e.bytes
    /\ UNCHANGED <<x, xval, enc_w, enc_d, dec_b, dec_p>>

\* offtin(buf) of bsdf2.rs
OfftinBsdf2 ==
    /\ buf # <<>> /\ dec_b = <<>>
    /\ dec_b' = offtin_bsdf2(buf)
    /\ UNCHANGED <<x, xval, enc_w, enc_d, buf, dec_p>>

\* offtin(buf) of patch.rs
OfftinPatch ==
    /\ buf # <<>> /\ dec_p = <<>>
    /\ dec_p' = offtin(buf)
    /\ UNCHANGED <<x, xval, enc_w, enc_d, buf, dec_b>>

----------------------------------------------------------------------------
(* patch_bsdf2 on its own: patches built field by field, well formed and   *)
(* malformed, applied to a few old files                                   *)

\* Control streams hold up to MaxTuples tuples.
MaxTuples == 2

\* Declared sizes 0..MaxNewSize are drawn for the tuple runs.
MaxNewSize == 3

Pos(n) == Val(FALSE, NatW(n))

Neg(n) == Val(TRUE, NatW(n))

\* The 8 bytes of an integer on the wire (the format, not an encoder).
Wire(v) == SignMagnitude(v)

AddLens == {Pos(0), Pos(1), Pos(2)}

CopyLens == {Pos(0), Pos(1)}

Seeks == {Pos(0), Neg(1), Val(FALSE, I64Max), Val(TRUE, I64Max)}

TupleValues == AddLens \X CopyLens \X Seeks

\* Tuples with negative lengths, with lengths near the limits of the
\* integer types, and an add that starts inside old and ends past it.
EdgeTupleSeqs ==
    { << <<Neg(1), Pos(0), Pos(0)>> >>,
      << <<Pos(0), Neg(1), Pos(0)>> >>,
      << <<Pos(1), Pos(0), Pos(0)>>, <<Neg(1), Pos(1), Pos(0)>> >>,
      << <<Pos(1), Pos(0), Pos(0)>>, <<Pos(1), Neg(1), Pos(0)>> >>,
      << <<Pos(2), Pos(0), Pos(0)>>,
         <<Val(FALSE, I64Max), Val(FALSE, I64Max), Pos(0)>> >>,
      << <<Val(FALSE, I64Max), Pos(0), Pos(0)>> >>,
      << <<Pos(0), Val(FALSE, MAX_NEW_SIZE), Pos(0)>> >>,
      << <<Pos(1), Pos(1), Pos(1)>>, <<Pos(0), Pos(0), Neg(2)>> >>,
      << <<Pos(1), Pos(1), Pos(1)>>, <<Pos(0), Pos(0), Neg(3)>> >>,
      << <<Pos(0), Pos(0), Pos(1)>>, <<Pos(2), Pos(1), Pos(0)>> >> }

SeqsUpTo(S, n) == UNION { [1..k -> S] : k \in 0..n }

TupleSeqs == SeqsUpTo(TupleValues, MaxTuples) \cup EdgeTupleSeqs

\* The 24 bytes of a tuple on the wire.
WireTuple(t) == Wire(t[1]) \o Wire(t[2]) \o Wire(t[3])

WireTuples(ts) == Concat([i \in 1..Len(ts) |-> WireTuple(ts[i])])

\* The diff and extra streams of the tuple runs.
DiffStream == <<1, 255>>

ExtraStream == <<7>>

OldFiles == {<<>>, <<250, 20>>}

\* A patch from its magic, its three header fields and its three streams.
MakePatch(magic, lc, ld, ns, c, d, e) == magic \o lc \o ld \o ns \o c \o d \o e

\* The algorithms of the tag bytes 0, 1 and 2 of the format.
TagNames == <<AlgNone, AlgBz2, AlgBrotli>>

\* The tags a magic declares, when it declares any the reader knows.
TagsOf(magic) ==
    IF magic = BSDIFF_MAGIC THEN <<AlgBz2, AlgBz2, AlgBz2>>
    ELSE IF /\ Slice(magic, 0, 5) = BSDF2_MAGIC
            /\ \A i \in 6..8 : magic[i] \in {0, 1, 2}
    THEN [i \in 1..3 |-> TagNames[magic[i + 5] + 1]]
    ELSE <<AlgNone, AlgNone, AlgNone>>

Magics ==
    {BSDIFF_MAGIC, <<88, 89, 90, 88, 89, 90, 88, 89>>, ZeroW}
    \cup { BSDF2_MAGIC \o <<a, b, c>> : a, b, c \in {0, 1, 2} }
    \cup { BSDF2_MAGIC \o t : t \in {<<3, 0, 0>>, <<0, 3, 0>>, <<0, 0, 255>>} }

\* Decompressed streams for the header runs: control, diff, extra.
Payloads ==
    { <<<<>>, <<>>, <<>>>>,
      <<WireTuple(<<Pos(1), Pos(1), Pos(0)>>), <<5>>, <<7>>>>,
      <<SubSeq(WireTuple(<<Pos(1), Pos(1), Pos(0)>>), 1, 23), <<5>>, <<7>>>>,
      <<WireTuple(<<Pos(1), Pos(0), Neg(1)>>) \o WireTuple(<<Pos(0), Pos(1), Pos(0)>>)
          \o <<0>>, <<5>>, <<7>>>> }

\* The bytes a header field holds for a stream of n bytes.
LenFields(n) == {NatW(n), NatW(n + 1), Wire(Neg(1)), I64Max, I64Min}

\* The bytes the new_size field holds for an output of n bytes.
SizeFields(n) ==
    {NatW(n), MAX_NEW_SIZE, WAdd(MAX_NEW_SIZE, NatW(1)),
     <<0, 0, 0, 192, 0, 0, 0, 0>>, Wire(Neg(1))}

\* The output a payload describes when its tuples are whole.
PayloadSize(p) == Len(p[2]) + Len(p[3])

\* A well-formed patch, cut short below.
SamplePatch ==
    MakePatch(BSDIFF_MAGIC, NatW(25), NatW(2), NatW(2),
              compress(AlgBz2, WireTuple(<<Pos(1), Pos(1), Pos(0)>>)),
              compress(AlgBz2, <<5>>), compress(AlgBz2, <<7>>))

\* The state before patch_bsdf2(o, data, buffer) is entered.
ApplyAt(pc, o, data, buffer) ==
    /\ old = o /\ patch_data = data /\ new = buffer /\ new0 = buffer
    /\ new_size = ZeroW /\ control_data = <<>> /\ diff_data = <<>>
    /\ extra_data = <<>> /\ oldpos = ZeroW /\ diff_pos = 0 /\ extra_pos = 0
    /\ ctrl_idx = 0 /\ apc = pc /\ ret = NoRet

ApplyStart(o, data, buffer) == ApplyAt("call", o, data, buffer)

\* Uncompressed BSDF2 patches around every short run of tuples.
TupleRuns ==
    \E ts \in TupleSeqs, ns \in 0..MaxNewSize, o \in OldFiles :
        ApplyStart(o,
                   MakePatch(BSDF2_MAGIC \o <<0, 0, 0>>,
                             NatW(24 * Len(ts)), NatW(Len(DiffStream)), NatW(ns),
                             WireTuples(ts), DiffStream, ExtraStream),
                   <<>>)

\* Patches around every magic and every kind of header field; the streams
\* are compressed as the magic says, or left as they are (damaged).
HeaderRuns ==
    \E magic \in Magics, p \in Payloads, damaged \in BOOLEAN :
        LET tags == IF damaged THEN <<AlgNone, AlgNone, AlgNone>> ELSE TagsOf(magic)
            c == compress(tags[1], p[1])
            d == compress(tags[2], p[2])
            e == compress(tags[3], p[3])
        IN  \E lc \in LenFields(Len(c)), ld \in LenFields(Len(d)),
               ns \in SizeFields(PayloadSize(p)) :
                ApplyStart(<<250, 20>>, MakePatch(magic, lc, ld, ns, c, d, e), <<9, 9>>)

\* Patches that end in or right after the header.
ShortRuns ==
    \E k \in 0..Len(SamplePatch) :
        ApplyStart(<<250, 20>>, SubSeq(SamplePatch, 1, k), <<9, 9>>)

ApplyInit == TupleRuns \/ HeaderRuns \/ ShortRuns

ApplyIdle == ApplyAt("idle", <<>>, <<>>, <<>>)

----------------------------------------------------------------------------
(* The writer on its own: short runs of calls on a writer of any tags *)

\* A writer is closed after at most MaxCalls calls.
MaxCalls == 3

\* 2 GiB, the largest output of C7
TwoGiB == Val(FALSE, MAX_NEW_SIZE)

\* The entries drawn, as integers: diff_size, extra_size, offset_increment.
EntryValues ==
    { <<Pos(0), Pos(0), Pos(0)>>,
      <<Pos(1), Pos(2), Neg(1)>>,
      <<Pos(2), Pos(0), Val(FALSE, I64Max)>>,
      <<TwoGiB, Pos(0), Val(TRUE, I64Max)>>,
      <<Pos(1), TwoGiB, Pos(0)>>,
      <<Neg(1), Pos(0), Pos(0)>>,
      <<Val(FALSE, I64Max), Val(FALSE, I64Max), Pos(3)>>,
      <<Val(FALSE, I64Max), Pos(1), Pos(0)>> }

EntryOf(t) == ControlEntry(I64Of(t[1]), I64Of(t[2]), I64Of(t[3]))

DiffChunks == {<<1, 255>>}

ExtraChunks == {<<7>>}

WriterInit ==
    /\ \/ \E a, b, c \in CompressionAlgorithm : writer = NewWriter(a, b, c)
       \/ writer = NewLegacyWriter
    /\ calls = <<>> /\ sink = <<>> /\ wpc = "open"

WriterIdle ==
    /\ writer = NewLegacyWriter /\ calls = <<>> /\ sink = <<>> /\ wpc = "idle"

----------------------------------------------------------------------------
(* diff and patch together: diff on a pair of files, patch on what it wrote *)

\* Files of up to MaxLen bytes of Alphabet are drawn for old and for new.
MaxLen == 4

Alphabet == {0, 255}

\* A file of n bytes b.
Run(n, b) == [i \in 1..n |-> b]

\* Pairs of longer files: groups of 16 and more suffixes for the three-way
\* partition, matches of more than 8 bytes, overlapping forward and
\* backward extents.
LongPairs ==
    { << <<0, 0, 0, 0, 0, 255, 255, 255, 255, 0, 0, 0, 255, 0, 0, 255, 0, 0,
           0, 0, 0, 0>>,
         <<0, 0, 255, 255, 255, 0, 0, 0, 255, 0, 0, 255, 0, 0, 0, 0>> >>,
      << <<255, 0, 255, 255, 1, 1, 0, 255, 255, 255, 1, 0, 1, 255, 0, 255,
           255, 255>>,
         <<255, 1, 1, 0, 255, 255, 255, 1, 0, 1, 1>> >>,
      << <<255, 0, 0, 0, 0, 0, 0, 0, 0, 0, 1, 0, 0, 0, 0, 0, 0, 0, 0>>,
         <<1, 0, 0, 0, 0, 1, 0, 0, 255, 0>> >> }

Files == SeqsUpTo(Alphabet, MaxLen)

\* The reader hands out a byte at a time, or all it is asked for.
ReadChunks == {1, 64}

DiffAt(pc, o, n) ==
    /\ diff_old = o /\ diff_new = n
    /\ suffix = Arrays(<<>>, <<>>) /\ sufh = 0
    /\ differ = Locals(0, 0, 0, 0, 0, 0)
    /\ patch_stream = <<>> /\ tuples = <<>>
    /\ dpc = pc

DiffInit ==
    \/ \E o, n \in Files : DiffAt("call", o, n)
    \/ \E pr \in LongPairs : DiffAt("call", pr[1], pr[2])

DiffIdle == DiffAt("idle", <<>>, <<>>)

PatchIdle ==
    /\ p_old = <<>> /\ p_stream = <<>> /\ p_chunk = 0 /\ p_new = <<>>
    /\ p_oldpos = ZeroW /\ p_read = 0 /\ ppc = "idle" /\ p_ret = NoRet

\* patch(old, &mut stream, &mut new) is called with the old file of diff,
\* a reader of the bytes diff wrote and an empty buffer.
PatchCall ==
    /\ dpc = "returned" /\ ppc = "idle"
    /\ p_old' = diff_old /\ p_stream' = patch_stream
    /\ p_chunk' \in ReadChunks
    /\ p_new' = <<>> /\ p_oldpos' = ZeroW /\ p_read' = 0
    /\ ppc' = "loop"
    /\ UNCHANGED p_ret

----------------------------------------------------------------------------
(* Inputs of the streaming applier: flat streams cut short anywhere *)

\* A flat stream holds up to MaxRecords records.
MaxRecords == 2

\* The payload length a control value stands for; a negative one has none.
PayloadLen(v) == IF v.neg THEN 0 ELSE WNat(v.mag)

\* The j-th diff byte and the j-th extra byte a stream carries.
DiffByte(j) == (37 * j + 1) % 256

ExtraByte(j) == (200 + 11 * j) % 256

RECURSIVE Flat(_, _, _, _)
\* The records of the tuples ts from the i-th on: each 24-byte tuple is
\* followed by its add_len diff bytes and its copy_len extra bytes.
Flat(ts, i, dp, ep) ==
    IF i > Len(ts) THEN <<>>
    ELSE LET a == PayloadLen(ts[i][1])
             c == PayloadLen(ts[i][2])
         IN  WireTuple(ts[i]) \o [j \in 1..a |-> DiffByte(dp + j)]
                 \o [j \in 1..c |-> ExtraByte(ep + j)]
                 \o Flat(ts, i + 1, dp + a, ep + c)

\* Tuples patch accepts, a tuple that adds past the end of a short old, a
\* seek below zero and a negative length.
StreamTuples ==
    { <<Pos(1), Pos(1), Neg(1)>>, <<Pos(2), Pos(0), Pos(0)>>,
      <<Pos(0), Pos(1), Pos(1)>>, <<Pos(0), Pos(0), Neg(1)>>,
      <<Neg(1), Pos(0), Pos(0)>> }

\* Every prefix of the flat stream of up to MaxRecords tuples.
CutStreams ==
    UNION { { Slice(f, 0, k) : k \in 0..Len(f) } :
              f \in { Flat(ts, 1, 0, 0) :
                        ts \in SeqsUpTo(StreamTuples, MaxRecords) } }

\* The reader hands out a byte at a time, seven, or all it is asked for.
StreamChunks == {1, 7, 64}

\* patch(old, &mut stream, &mut new) is entered with an empty buffer.
StreamInit ==
    /\ p_old \in OldFiles /\ p_stream \in CutStreams
    /\ p_chunk \in StreamChunks
    /\ p_new = <<>> /\ p_oldpos = ZeroW /\ p_read = 0
    /\ ppc = "loop" /\ p_ret = NoRet

----------------------------------------------------------------------------
(* Inputs of the two appliers run on the same tuples *)

\* Both appliers are given up to MaxPairTuples tuples.
MaxPairTuples == 2

PairTuples == {Pos(0), Pos(1), Pos(2)} \X {Pos(0), Pos(1)} \X {Pos(0), Pos(1), Neg(1)}

RECURSIVE PayloadOf(_, _, _)
\* The sum of the k-th lengths of the tuples from the i-th on.
PayloadOf(ts, k, i) ==
    IF i > Len(ts) THEN 0 ELSE PayloadLen(ts[i][k]) + PayloadOf(ts, k, i + 1)

\* patch_bsdf2 is called on an uncompressed BSDF2 patch of the tuples ts,
\* with the diff and extra bytes they use and the size they describe;
\* patch is called on the same tuples as a flat stream.
BothStart(o, ts) ==
    LET d == [j \in 1..PayloadOf(ts, 1, 1) |-> DiffByte(j)]
        ex == [j \in 1..PayloadOf(ts, 2, 1) |-> ExtraByte(j)]
    IN  /\ ApplyStart(o,
                      MakePatch(BSDF2_MAGIC \o <<0, 0, 0>>,
                                NatW(24 * Len(ts)), NatW(Len(d)),
                                NatW(Len(d) + Len(ex)), WireTuples(ts), d, ex),
                      <<>>)
        /\ p_old = o /\ p_stream = Flat(ts, 1, 0, 0)
        /\ p_chunk \in ReadChunks
        /\ p_new = <<>> /\ p_oldpos = ZeroW /\ p_read = 0
        /\ ppc = "loop" /\ p_ret = NoRet

BothInit ==
    \E o \in OldFiles, ts \in SeqsUpTo(PairTuples, MaxPairTuples) :
        BothStart(o, ts)

\* patch is run once patch_bsdf2 has returned.
PatchAfterApply == apc = "returned" /\ PatchPass

----------------------------------------------------------------------------
(* Specifications *)

Init == DiffInit /\ PatchIdle /\ CodecIdle /\ ApplyIdle /\ WriterIdle

Next ==
    \/ BsdiffEnter /\ UNCHANGED <<codecVars, applyVars, writerVars, patchVars>>
    \/ QsufsortPass /\ UNCHANGED <<codecVars, applyVars, writerVars, patchVars>>
    \/ QsufsortReturn /\ UNCHANGED <<codecVars, applyVars, writerVars, patchVars>>
    \/ BsdiffPass /\ UNCHANGED <<codecVars, applyVars, writerVars, patchVars>>
    \/ BsdiffReturn /\ UNCHANGED <<codecVars, applyVars, writerVars, patchVars>>
    \/ PatchCall /\ UNCHANGED <<codecVars, applyVars, writerVars, diffVars>>
    \/ PatchPass /\ UNCHANGED <<codecVars, applyVars, writerVars, diffVars>>

Spec == Init /\ [][Next]_vars

InitCodec == CodecInit /\ ApplyIdle /\ WriterIdle /\ DiffIdle /\ PatchIdle

NextCodec ==
    \/ EncodeInt64 /\ UNCHANGED <<applyVars, writerVars, diffVars, patchVars>>
    \/ Offtout /\ UNCHANGED <<applyVars, writerVars, diffVars, patchVars>>
    \/ LoadEncoded /\ UNCHANGED <<applyVars, writerVars, diffVars, patchVars>>
    \/ OfftinBsdf2 /\ UNCHANGED <<applyVars, writerVars, diffVars, patchVars>>
    \/ OfftinPatch /\ UNCHANGED <<applyVars, writerVars, diffVars, patchVars>>

SpecCodec == InitCodec /\ [][NextCodec]_vars

InitApply == ApplyInit /\ CodecIdle /\ WriterIdle /\ DiffIdle /\ PatchIdle

NextApply ==
    \/ PatchBsdf2Enter /\ UNCHANGED <<codecVars, writerVars, diffVars, patchVars>>
    \/ PatchBsdf2Tuple /\ UNCHANGED <<codecVars, writerVars, diffVars, patchVars>>
    \/ PatchBsdf2Finish /\ UNCHANGED <<codecVars, writerVars, diffVars, patchVars>>

SpecApply == InitApply /\ [][NextApply]_vars

InitStream == StreamInit /\ CodecIdle /\ ApplyIdle /\ WriterIdle /\ DiffIdle

NextStream ==
    PatchPass /\ UNCHANGED <<codecVars, applyVars, writerVars, diffVars>>

SpecStream == InitStream /\ [][NextStream]_vars

InitBoth == BothInit /\ CodecIdle /\ WriterIdle /\ DiffIdle

NextBoth ==
    \/ PatchBsdf2Enter /\ UNCHANGED <<codecVars, writerVars, diffVars, patchVars>>
    \/ PatchBsdf2Tuple /\ UNCHANGED <<codecVars, writerVars, diffVars, patchVars>>
    \/ PatchBsdf2Finish /\ UNCHANGED <<codecVars, writerVars, diffVars, patchVars>>
    \/ PatchAfterApply /\ UNCHANGED <<codecVars, writerVars, diffVars, applyVars>>

SpecBoth == InitBoth /\ [][NextBoth]_vars

InitWriter == WriterInit /\ CodecIdle /\ ApplyIdle /\ DiffIdle /\ PatchIdle

NextWriter ==
    \/ /\ Len(calls) < MaxCalls
       /\ \E t \in EntryValues : AddControlEntry(EntryOf(t))
       /\ UNCHANGED <<codecVars, applyVars, diffVars, patchVars>>
    \/ /\ Len(calls) < MaxCalls
       /\ \E d \in DiffChunks : WriteDiffStream(d)
       /\ UNCHANGED <<codecVars, applyVars, diffVars, patchVars>>
    \/ /\ Len(calls) < MaxCalls
       /\ \E d \in ExtraChunks : WriteExtraStream(d)
       /\ UNCHANGED <<codecVars, applyVars, diffVars, patchVars>>
    \/ Close /\ UNCHANGED <<codecVars, applyVars, diffVars, patchVars>>

SpecWriter == InitWriter /\ [][NextWriter]_vars

----------------------------------------------------------------------------
(* Claims about the codec *)

\* x is in -(2^63-1) .. 2^63-1.
InCodecRange(v) == v # NoVal /\ ~SignBit(v.mag)

\* C6: for every x in -(2^63-1) .. 2^63-1 each encoder writes the
\* little-endian bytes of |x| with bit 63 set exactly when x < 0, the two
\* encoders write the same bytes, each decoder applied to them returns x,
\* and the pattern with only bit 63 set decodes to 0.
C6_CodecRoundTrip ==
    /\ InCodecRange(xval) =>
          /\ enc_w # Unset => ~enc_w.panic /\ enc_w.bytes = SignMagnitude(xval)
          /\ enc_d # Unset => ~enc_d.panic /\ enc_d.bytes = SignMagnitude(xval)
          /\ (enc_w # Unset /\ enc_d # Unset) => enc_w = enc_d
          /\ dec_b # <<>> => dec_b = x
          /\ dec_p # <<>> => dec_p = x
    /\ buf = I64Min =>
          /\ dec_b # <<>> => dec_b = ZeroW
          /\ dec_p # <<>> => dec_p = ZeroW

\* Both encoders and both decoders have acted on -(2^63-1).
C6_Witness ==
    /\ xval = Val(TRUE, I64Max)
    /\ enc_w # Unset /\ enc_d # Unset
    /\ dec_b = x /\ dec_p = x

----------------------------------------------------------------------------
(* Claims about the container reader and patch_bsdf2 *)

\* A header field holds a negative integer: the sign bit and a magnitude.
FieldNegative(f) == SignBit(f) /\ ClearBit63(f) # ZeroW

\* The three header fields of a patch of 32 bytes or more.
SizeField(data) == Slice(data, 24, 32)

\* The magnitudes of the control and diff length fields.
ControlField(data) == ClearBit63(Slice(data, 8, 16))

DiffField(data) == ClearBit63(Slice(data, 16, 24))

\* The first 8 bytes are "BSDIFF40", or "BSDF2" and three tags in {0,1,2}.
MagicKnown(data) ==
    \/ Slice(data, 0, 8) = BSDIFF_MAGIC
    \/ /\ Slice(data, 0, 5) = BSDF2_MAGIC
       /\ \A i \in 5..7 : At(data, i) \in {0, 1, 2}

\* 32 + control length + diff length, as integers, is within the patch.
\* Both lengths are non-negative here, so the fields are their magnitudes.
StreamsFit(data) ==
    /\ IsSmall(ControlField(data)) /\ IsSmall(DiffField(data))
    /\ WNat(ControlField(data)) <= Len(data)
    /\ WNat(DiffField(data)) <= Len(data)
    /\ 32 + WNat(ControlField(data)) + WNat(DiffField(data)) <= Len(data)

\* The patches C3 is about.
Malformed(data) ==
    \/ Len(data) < 32
    \/ ~MagicKnown(data)
    \/ FieldNegative(Slice(data, 8, 16))
    \/ FieldNegative(Slice(data, 16, 24))
    \/ FieldNegative(SizeField(data))
    \/ ~StreamsFit(data)

\* The declared new_size is above 2 GiB.
Oversize(data) ==
    /\ ~FieldNegative(SizeField(data))
    /\ ULt(MAX_NEW_SIZE, ClearBit63(SizeField(data)))

Returned == apc = "returned"

\* C2: whenever patch_bsdf2 returns Ok the output length is the new_size of
\* the header and the diff and extra cursors are at the ends of their
\* streams; a run of the tuples that ends otherwise returns InvalidData.
C2_OkMeansFullyConsumed ==
    /\ (Returned /\ ret = Ok) =>
          /\ new_size = ClearBit63(SizeField(patch_data))
          /\ NatW(Len(new)) = new_size
          /\ diff_pos = Len(diff_data)
          /\ extra_pos = Len(extra_data)
    /\ (/\ Returned /\ ret.kind # "InvalidData"
        /\ \/ NatW(Len(new)) # new_size
           \/ diff_pos # Len(diff_data)
           \/ extra_pos # Len(extra_data)) =>
          parse_bsdf2_header(patch_data).ret # Ok

\* patch_bsdf2 returned Ok after two tuples that produced output.
C2_Witness ==
    /\ Returned /\ ret = Ok
    /\ ctrl_idx = 48 /\ Len(new) = 3 /\ diff_pos = 2 /\ extra_pos = 1

\* C3: parse_bsdf2_header returns InvalidData, never Ok, for a patch that is
\* shorter than 32 bytes, or whose magic is neither "BSDIFF40" nor "BSDF2"
\* with three tags in {0,1,2}, or with a negative control length, diff
\* length or new_size, or whose 32 + control length + diff length exceeds
\* the patch length; patch_bsdf2 returns that error.
C3_MalformedHeaderRejected ==
    Malformed(patch_data) =>
        /\ apc = "call" => parse_bsdf2_header(patch_data).ret.kind = "InvalidData"
        /\ apc # "call" => Returned /\ ret.kind = "InvalidData"

\* A patch with a known magic and fitting lengths but a negative new_size
\* was rejected.
C3_Witness ==
    /\ Returned /\ ret.kind = "InvalidData"
    /\ Len(patch_data) >= 32 /\ MagicKnown(patch_data)
    /\ ~FieldNegative(Slice(patch_data, 8, 16))
    /\ ~FieldNegative(Slice(patch_data, 16, 24))
    /\ StreamsFit(patch_data)
    /\ FieldNegative(SizeField(patch_data))

\* C4: a patch that declares a new_size above 2 GiB, with valid magic and
\* lengths, is rejected with the kind ResourceExhausted; a declared
\* new_size of exactly 2 GiB is not rejected by this check.
C4_OversizeIsResourceExhausted ==
    /\ (~Malformed(patch_data) /\ Oversize(patch_data) /\ apc # "call") =>
          /\ parse_bsdf2_header(patch_data).ret.kind = "ResourceExhausted"
          /\ Returned /\ ret.kind = "ResourceExhausted"
    /\ (~Malformed(patch_data) /\ SizeField(patch_data) = MAX_NEW_SIZE) =>
          parse_bsdf2_header(patch_data).ret.msg # "New size exceeds limit"

\* The decompressed control stream of a patch whose header is well formed.
ControlOf(data) ==
    decompress(TagsOf(Slice(data, 0, 8))[1],
               Slice(data, 32, 32 + WNat(ControlField(data))))

\* C5: parse_bsdf2_header returns Ok only if the decompressed control stream
\* has a length that is a multiple of 24 and returns InvalidData otherwise;
\* the tuple loop of patch_bsdf2 reads whole tuples and never returns
\* 'Incomplete control tuple'.
C5_ControlIsWholeTuples ==
    /\ (apc = "call" /\ parse_bsdf2_header(patch_data).ret = Ok) =>
          Len(parse_bsdf2_header(patch_data).control_data) % 24 = 0
    /\ (/\ apc # "call"
        /\ ~Malformed(patch_data) /\ ~Oversize(patch_data)
        /\ ControlOf(patch_data).ok
        /\ Len(ControlOf(patch_data).data) % 24 # 0) =>
          Returned /\ ret.kind = "InvalidData"
    /\ apc = "loop" =>
          /\ Len(control_data) % 24 = 0
          /\ ctrl_idx % 24 = 0 /\ ctrl_idx <= Len(control_data)
    /\ ret.msg # "Incomplete control tuple"

\* A patch whose control stream decompresses to 23 bytes was rejected.
C5_Witness ==
    /\ Returned /\ ret.kind = "InvalidData"
    /\ ~Malformed(patch_data) /\ ~Oversize(patch_data)
    /\ ControlOf(patch_data).ok
    /\ Len(ControlOf(patch_data).data) = 23

\* C10: whenever patch_bsdf2 returns an error the caller's buffer holds no
\* byte produced by the failed apply: it is empty, or it is as the caller
\* passed it.
C10_NoPartialResults ==
    (Returned /\ ret # Ok) =>
        \/ new = <<>>
        \/ parse_bsdf2_header(patch_data).ret # Ok /\ new = new0

----------------------------------------------------------------------------
(* Claims about the container writer *)

\* The integer an i64 holds, as a sign and a magnitude.
ValOf(w) == IF SignBit(w) THEN Val(TRUE, WNeg(w)) ELSE Val(FALSE, w)

\* The entries of a run of calls, and the data written to a stream.
IsEntry(c) == c.op = "entry"

RECURSIVE Gather(_, _)
\* The things a run of calls holds for op, in call order: the 24 bytes of
\* each entry on the wire, or the chunks written to a stream.
Gather(cs, op) ==
    IF cs = <<>> THEN <<>>
    ELSE IF Head(cs).op # op THEN Gather(Tail(cs), op)
    ELSE IF op = "entry"
    THEN Wire(ValOf(Head(cs).arg[1])) \o Wire(ValOf(Head(cs).arg[2]))
           \o Wire(ValOf(Head(cs).arg[3])) \o Gather(Tail(cs), op)
    ELSE Head(cs).arg \o Gather(Tail(cs), op)

\* Every entry has non-negative sizes.
SizesNonNegative(cs) ==
    \A i \in 1..Len(cs) :
        IsEntry(cs[i]) => ~SignBit(cs[i].arg[1]) /\ ~SignBit(cs[i].arg[2])

RECURSIVE TotalSize(_)
\* The sum of diff_size + extra_size over the entries of a run of calls with
\* non-negative sizes, or over when it is above 2 GiB.
TotalSize(cs) ==
    IF cs = <<>> THEN [over |-> FALSE, sum |-> ZeroW]
    ELSE LET rest == TotalSize(Tail(cs))
             c == Head(cs)
             t == WAdd(WAdd(rest.sum, c.arg[1]), c.arg[2])
         IN  IF ~IsEntry(c) THEN rest
             ELSE IF \/ rest.over
                     \/ ULt(MAX_NEW_SIZE, c.arg[1])
                     \/ ULt(MAX_NEW_SIZE, c.arg[2])
                     \/ ULt(MAX_NEW_SIZE, t)
             THEN [over |-> TRUE, sum |-> ZeroW]
             ELSE [over |-> FALSE, sum |-> t]

\* C7: after any run of add_control_entry calls with non-negative sizes of
\* total at most 2 GiB, interleaved with write_diff_stream and
\* write_extra_stream calls, and close, parse_bsdf2_header of the bytes
\* written returns Ok with new_size the sum of the sizes, the control stream
\* the 24-byte encodings of the entries in call order and the diff and
\* extra streams the data written, for every choice of the three tags.
C7_WriterReaderRoundTrip ==
    (wpc = "closed" /\ SizesNonNegative(calls) /\ ~TotalSize(calls).over) =>
        parse_bsdf2_header(sink) =
            Parsed(Ok, TotalSize(calls).sum, Gather(calls, "entry"),
                   Gather(calls, "diff"), Gather(calls, "extra"))

\* A writer of three different tags was closed after a diff chunk, an entry
\* of 2 GiB and an extra chunk, and the reader accepts what it wrote.
C7_Witness ==
    /\ wpc = "closed" /\ Len(calls) = 3
    /\ calls[1].op = "diff" /\ calls[3].op = "extra"
    /\ calls[2].op = "entry" /\ calls[2].arg[1] = MAX_NEW_SIZE
    /\ writer.ctrl_alg = AlgBrotli /\ writer.diff_alg = AlgNone
    /\ writer.extra_alg = AlgBz2
    /\ parse_bsdf2_header(sink).new_size = MAX_NEW_SIZE

\* The tag byte of an algorithm in the format: None=0, Bz2=1, Brotli=2.
TagByte(alg) == CHOOSE t \in 0..2 : TagNames[t + 1] = alg

\* C8: close writes the magic "BSDIFF40" exactly when all three tags are
\* Bz2 (as for new_legacy) and otherwise "BSDF2" and the control, diff and
\* extra tag bytes in that order; the header is 32 bytes and the compressed
\* control, diff and extra streams follow it in that order.
C8_CloseLayout ==
    /\ NewLegacyWriter.ctrl_alg = AlgBz2 /\ NewLegacyWriter.diff_alg = AlgBz2
    /\ NewLegacyWriter.extra_alg = AlgBz2
    /\ wpc = "closed" =>
          /\ Len(sink) >= 32
          /\ SubSeq(sink, 1, 8) =
                IF /\ writer.ctrl_alg = AlgBz2 /\ writer.diff_alg = AlgBz2
                   /\ writer.extra_alg = AlgBz2
                THEN BSDIFF_MAGIC
                ELSE BSDF2_MAGIC \o <<TagByte(writer.ctrl_alg),
                                      TagByte(writer.diff_alg),
                                      TagByte(writer.extra_alg)>>
          /\ SubSeq(sink, 33, Len(sink)) =
                compress(writer.ctrl_alg, Gather(calls, "entry"))
                  \o compress(writer.diff_alg, Gather(calls, "diff"))
                  \o compress(writer.extra_alg, Gather(calls, "extra"))

\* A writer with two Bz2 tags and a Brotli one was closed after three calls.
C8_Witness ==
    /\ wpc = "closed" /\ Len(calls) = 3
    /\ calls[1].op = "entry" /\ calls[2].op = "diff" /\ calls[3].op = "extra"
    /\ writer.ctrl_alg = AlgBz2 /\ writer.diff_alg = AlgBz2
    /\ writer.extra_alg = AlgBrotli
    /\ SubSeq(sink, 1, 8) = BSDF2_MAGIC \o <<1, 1, 2>>

----------------------------------------------------------------------------
(* Claims about the differ and the streaming applier *)

\* C1: for every pair of byte sequences old and new, diff(old, new, writer)
\* returns and patch::patch, fed the bytes diff wrote, the same old and an
\* empty output buffer, returns Ok and leaves the buffer equal to new.
C1_DiffPatchRoundTrip ==
    /\ dpc # "panicked"
    /\ ppc = "returned" => p_ret = Ok /\ p_new = diff_new

\* patch returned on the two tuples diff wrote for a pair of longer files,
\* read a byte at a time.
C1_Witness ==
    /\ ppc = "returned" /\ p_chunk = 1
    /\ Len(diff_old) = 18 /\ Len(diff_new) = 11
    /\ Len(tuples) = 2 /\ tuples[2].ctrl = <<10, 1, -3>>
    /\ p_new = diff_new

RECURSIVE LexLeq(_, _, _)
\* a <= b in lexicographic order, decided from position k on.
LexLeq(a, b, k) ==
    IF k >= Len(a) THEN TRUE
    ELSE IF k >= Len(b) THEN FALSE
    ELSE IF At(a, k) # At(b, k) THEN At(a, k) < At(b, k)
    ELSE LexLeq(a, b, k + 1)

\* qsufsort has returned.
Sorted == dpc \in {"loop", "returned"}

\* C9: after qsufsort returns, for old of length n (n = 0 included),
\* I[0..=n] is a permutation of 0..=n with no negative entry, I[V[i]] = i
\* for every i in 0..=n, I[0] = n, and for adjacent ranks r, r + 1 the
\* suffix old[I[r]..] is lexicographically at most old[I[r + 1]..].
C9_QsufsortPostconditions ==
    Sorted =>
        LET n == Len(diff_old)
        IN  /\ Len(suffix.I) = n + 1 /\ Len(suffix.V) = n + 1
            /\ \A i \in 0..n : At(suffix.I, i) \in 0..n
            /\ \A i \in 0..n : \E r \in 0..n : At(suffix.I, r) = i
            /\ \A i \in 0..n :
                  At(suffix.V, i) \in 0..n /\ At(suffix.I, At(suffix.V, i)) = i
            /\ At(suffix.I, 0) = n
            /\ \A r \in 0..(n - 1) :
                  At(suffix.I, r) \in 0..n /\ At(suffix.I, r + 1) \in 0..n
                  => LexLeq(Slice(diff_old, At(suffix.I, r), n),
                            Slice(diff_old, At(suffix.I, r + 1), n), 0)

\* qsufsort returned on a file of 22 bytes, whose bucket of 16 suffixes
\* went through the three-way partition, after four refinement passes.
C9_Witness ==
    /\ dpc = "loop" /\ Len(diff_old) = 22 /\ sufh = 16
    /\ At(suffix.I, 0) = 22 /\ At(suffix.V, 22) = 0

----------------------------------------------------------------------------
(* Claims about the tuples of patch_bsdf2 *)

\* The three fields of the control tuple at ctrl_idx, as written on the wire.
FieldAt(k) == Slice(control_data, ctrl_idx + 8 * k, ctrl_idx + 8 * k + 8)

\* The integer of a field on the wire: its sign and its magnitude.
WireVal(b) == Val(SignBit(b), ClearBit63(b))

\* The sum of a natural below 2^64 and an integer, where it is in 0..2^63-1.
ExactSum(nat, v) ==
    IF ~v.neg
    THEN [ok |-> ~UOverflows(nat, v.mag) /\ ~SignBit(WAdd(nat, v.mag)),
          pos |-> WAdd(nat, v.mag)]
    ELSE [ok |-> ~ULt(nat, v.mag) /\ ~SignBit(WAdd(nat, WNeg(v.mag))),
          pos |-> WAdd(nat, WNeg(v.mag))]

\* A pass of the tuple loop that came to its seek step.
SeekTaken ==
    /\ apc = "loop" /\ ctrl_idx' = ctrl_idx + 24
    /\ \/ apc' = "loop"
       \/ ret'.msg \in {"Seek overflow", "Seek underflow"}

\* C11: after the add and copy steps of a tuple, the new oldpos is the
\* mathematical sum of the advanced oldpos and the seek: where that sum is
\* negative or above 2^63-1 the apply fails with InvalidData, otherwise
\* oldpos becomes that sum, never a wrapped value.
C11_SeekIsExact ==
    [][SeekTaken =>
        LET e == ExactSum(WAdd(oldpos, FieldAt(0)), WireVal(FieldAt(2)))
        IN  IF e.ok THEN apc' = "loop" /\ oldpos' = e.pos
            ELSE apc' = "returned" /\ ret'.kind = "InvalidData"]_vars

\* The value offtin reads: a set sign bit on a zero magnitude is zero.
Negative(v) == v.neg /\ v.mag # ZeroW

\* The length v reaches past the `avail` bytes of a stream read from pos.
PastEnd(v, pos, avail) == ~(IsSmall(v.mag) /\ WNat(v.mag) <= avail - pos)

\* old[oldpos + j] when oldpos + j < |old|, else 0.
PaddedOld(j) ==
    IF IsSmall(oldpos) /\ WNat(oldpos) + j < Len(old)
    THEN At(old, WNat(oldpos) + j) ELSE 0

\* A whole tuple is read from the control stream.
TupleRead == apc = "loop" /\ ctrl_idx' = ctrl_idx + 24

\* C16: a tuple with add_len < 0, copy_len < 0, diff_pos + add_len > |diff|,
\* extra_pos + copy_len > |extra| or |new| + add_len + copy_len > new_size
\* is rejected with InvalidData; any other tuple appends, for j in
\* 0..add_len, the byte old[oldpos + j] (0 past the end of old) plus
\* diff[diff_pos + j] modulo 256 and then extra[extra_pos..extra_pos +
\* copy_len], and only its seek can still reject it.
C16_TupleBytes ==
    [][TupleRead =>
        LET a == WireVal(FieldAt(0))
            c == WireVal(FieldAt(1))
            add_len == WNat(a.mag)
            copy_len == WNat(c.mag)
        IN  IF \/ Negative(a) \/ Negative(c)
               \/ PastEnd(a, diff_pos, Len(diff_data))
               \/ PastEnd(c, extra_pos, Len(extra_data))
               \/ /\ IsSmall(new_size)
                  /\ Len(new) + add_len + copy_len > WNat(new_size)
            THEN apc' = "returned" /\ ret'.kind = "InvalidData"
            ELSE /\ new' = new
                        \o [j \in 1..add_len |->
                              (PaddedOld(j - 1) + At(diff_data, diff_pos + j - 1))
                                  % 256]
                        \o Slice(extra_data, extra_pos, extra_pos + copy_len)
                 /\ apc' = "returned" =>
                        ret'.msg \in {"Seek overflow", "Seek underflow"}]_vars

\* A tuple (2, 1, 0) applied to an empty old: both adds read past its end.
C16_Witness ==
    /\ Returned /\ ret = Ok /\ old = <<>> /\ ctrl_idx = 24
    /\ new = <<1, 255, 7>> /\ diff_pos = 2 /\ extra_pos = 1

----------------------------------------------------------------------------
(* Claims about the tuples diff writes *)

\* diff has returned for the files diff_old and diff_new.
DiffReturned == dpc = "returned"

\* C12 as stated: for an empty new and a non-empty old, diff emits exactly
\* one control tuple, with add_len = 0 and copy_len = 0 and no diff or extra
\* bytes.
C12_EmptyNewOneTuple ==
    (DiffReturned /\ diff_new = <<>> /\ diff_old # <<>>) =>
        /\ Len(tuples) = 1
        /\ tuples[1].ctrl[1] = 0 /\ tuples[1].ctrl[2] = 0
        /\ tuples[1].diff = <<>> /\ tuples[1].extra = <<>>

\* C12 as amended: for an empty new and a non-empty old, diff emits no
\* control tuple and writes no byte, so no diff or extra bytes either.
C12_EmptyNewNoTuple ==
    (DiffReturned /\ diff_new = <<>> /\ diff_old # <<>>) =>
        tuples = <<>> /\ patch_stream = <<>>

C12_Witness ==
    /\ DiffReturned /\ diff_new = <<>> /\ diff_old = <<0, 255, 0>>
    /\ tuples = <<>> /\ patch_stream = <<>>

\* C13: for an empty old and a non-empty new of length m, diff emits exactly
\* one control tuple (0, m, 0), no diff bytes, and extra bytes equal to new;
\* on the wire that is the three encoded values followed by new.
C13_EmptyOldAllExtra ==
    (DiffReturned /\ diff_old = <<>> /\ diff_new # <<>>) =>
        /\ tuples = << [ctrl |-> <<0, Len(diff_new), 0>>, diff |-> <<>>,
                        extra |-> diff_new] >>
        /\ patch_stream = ZeroW \o NatW(Len(diff_new)) \o ZeroW \o diff_new

C13_Witness ==
    /\ DiffReturned /\ diff_old = <<>> /\ diff_new = <<255, 0, 0>>
    /\ Len(tuples) = 1 /\ tuples[1].extra = <<255, 0, 0>>

\* C14: for a non-empty old and new equal to old, diff emits exactly one
\* control tuple, with add_len = |old| and copy_len = 0, followed by |old|
\* diff bytes that are all zero and by no extra bytes.
C14_EqualFilesOneTuple ==
    (DiffReturned /\ diff_old # <<>> /\ diff_new = diff_old) =>
        /\ Len(tuples) = 1
        /\ tuples[1].ctrl[1] = Len(diff_old) /\ tuples[1].ctrl[2] = 0
        /\ tuples[1].diff = Run(Len(diff_old), 0)
        /\ tuples[1].extra = <<>>
        /\ Slice(patch_stream, 0, 16) = NatW(Len(diff_old)) \o ZeroW
        /\ Slice(patch_stream, 24, Len(patch_stream)) = Run(Len(diff_old), 0)

C14_Witness ==
    /\ DiffReturned /\ diff_old = <<0, 255, 255>> /\ diff_new = diff_old
    /\ Len(tuples) = 1 /\ tuples[1].diff = <<0, 0, 0>>

----------------------------------------------------------------------------
(* Claims about the streaming applier *)

RECURSIVE Ends(_, _, _, _, _)
\* Where the flat stream ends for a reader that stands at `at` with the old
\* cursor at pos: on a tuple boundary, inside a control tuple, inside the
\* payload of a tuple, or behind a tuple with a negative length.  With
\* ranges set, a tuple whose add range leaves old or whose seek leaves
\* oldpos below zero counts as rejected too.
Ends(bytes, stream, at, pos, ranges) ==
    IF at = Len(stream) THEN "boundary"
    ELSE IF Len(stream) - at < 24 THEN "mid_control"
    ELSE LET a == WireVal(Slice(stream, at, at + 8))
             c == WireVal(Slice(stream, at + 8, at + 16))
             s == WireVal(Slice(stream, at + 16, at + 24))
             next == at + 24 + WNat(a.mag) + WNat(c.mag)
             seek == IF s.neg THEN 0 - WNat(s.mag) ELSE WNat(s.mag)
         IN  IF Negative(a) \/ Negative(c) THEN "rejected"
             ELSE IF next > Len(stream) THEN "mid_payload"
             ELSE IF ranges /\ pos + WNat(a.mag) > Len(bytes) THEN "rejected"
             ELSE IF ranges /\ pos + WNat(a.mag) + seek < 0 THEN "rejected"
             ELSE Ends(bytes, stream, next, pos + WNat(a.mag) + seek, ranges)

PatchReturned == ppc = "returned"

\* C15 as stated: patch returns Ok exactly when its input ends on a tuple
\* boundary, and UnexpectedEof when the input ends inside a control tuple
\* or inside the payload of a tuple, whatever the sizes of the reads.
C15_OkIffTupleBoundary ==
    PatchReturned =>
        LET end == Ends(p_old, p_stream, 0, 0, FALSE)
        IN  /\ p_ret = Ok <=> end = "boundary"
            /\ end \in {"mid_control", "mid_payload"} =>
                   p_ret.kind = "UnexpectedEof"

\* C15 as amended: patch returns Ok exactly when its input ends on a tuple
\* boundary and no tuple before the end has a negative length, an add range
\* that leaves old or a seek that leaves oldpos below zero; when the input
\* ends inside a control tuple or inside the payload of a tuple, behind
\* tuples that pass these checks, patch returns UnexpectedEof, whatever the
\* sizes of the reads.
C15_OkIffBoundaryOfAcceptedTuples ==
    PatchReturned =>
        LET end == Ends(p_old, p_stream, 0, 0, TRUE)
        IN  /\ p_ret = Ok <=> end = "boundary"
            /\ end \in {"mid_control", "mid_payload"} =>
                   p_ret.kind = "UnexpectedEof"

C15_Witness ==
    /\ PatchReturned /\ p_chunk = 7 /\ p_old = <<250, 20>>
    /\ Len(p_stream) = 26 + 24 + 1
    /\ Ends(p_old, p_stream, 0, 0, TRUE) = "mid_payload"
    /\ p_ret.kind = "UnexpectedEof"

RECURSIVE SumOf(_, _, _)
\* The sum of the k-th control value over the tuples from the i-th on.
SumOf(ts, k, i) ==
    IF i > Len(ts) THEN 0 ELSE ts[i].ctrl[k] + SumOf(ts, k, i + 1)

RECURSIVE Replay(_, _, _, _)
\* Replaying the tuples from the i-th on with the old cursor at pos: every
\* add range lies within the n bytes of old and every seek leaves the
\* cursor in 0..n.
Replay(ts, i, pos, n) ==
    IF i > Len(ts) THEN TRUE
    ELSE /\ pos + ts[i].ctrl[1] <= n
         /\ pos + ts[i].ctrl[1] + ts[i].ctrl[3] \in 0..n
         /\ Replay(ts, i + 1, pos + ts[i].ctrl[1] + ts[i].ctrl[3], n)

\* C18: the tuples diff emitted are well formed: add_len >= 0 and copy_len
\* >= 0 in each, add_len diff bytes and copy_len extra bytes written with
\* each, add_len + copy_len summing to |new| over all, and on a replay from
\* oldpos = 0, oldpos + add_len <= |old| before every add and 0 <= oldpos <=
\* |old| after every seek.
C18_TuplesWellFormed ==
    DiffReturned =>
        /\ \A i \in 1..Len(tuples) :
               /\ tuples[i].ctrl[1] >= 0 /\ tuples[i].ctrl[2] >= 0
               /\ Len(tuples[i].diff) = tuples[i].ctrl[1]
               /\ Len(tuples[i].extra) = tuples[i].ctrl[2]
        /\ SumOf(tuples, 1, 1) + SumOf(tuples, 2, 1) = Len(diff_new)
        /\ Len(patch_stream) = 24 * Len(tuples) + Len(diff_new)
        /\ Replay(tuples, 1, 0, Len(diff_old))

\* A run of two tuples: a seek forwards, then an add, a copy and a seek
\* backwards.
C18_Witness ==
    /\ DiffReturned /\ Len(tuples) = 2
    /\ tuples[1].ctrl = <<0, 0, 3>> /\ tuples[2].ctrl = <<10, 1, -3>>

----------------------------------------------------------------------------
(* Claims about search *)

\* The queries of bsdiff_internal: new[scan..] for every scan.
Queries == { Slice(diff_new, k, Len(diff_new)) : k \in 0..Len(diff_new) }

\* C17: on the complete sorted suffix array, search returns (pos, len) with
\* len = matchlen(old[pos..], query), and len is the maximum of
\* matchlen(old[i..], query) over all offsets i in 0..=|old|.
C17_SearchFindsLongest ==
    Sorted =>
        \A q \in Queries :
            LET r == search(suffix.I, 0, Len(diff_old), diff_old, q)
            IN  /\ ~r.panic
                /\ r.pos \in 0..Len(diff_old)
                /\ r.len = matchlen(Slice(diff_old, r.pos, Len(diff_old)), q)
                /\ \A i \in 0..Len(diff_old) :
                       matchlen(Slice(diff_old, i, Len(diff_old)), q) <= r.len

----------------------------------------------------------------------------
(* Claims about the totality of diff *)

\* No step of diff panicked: no index out of range, no negative index, no
\* unsigned cursor below zero.
NoPanic == dpc # "panicked" /\ ~suffix.panic

\* The doubling loop of qsufsort runs a pass only with h <= 2 |old|.
DoublingBounded ==
    (dpc = "qsufsort" /\ At(suffix.I, 0) # -(Len(diff_old) + 1)) =>
        sufh <= 2 * Len(diff_old)

\* A pass of the doubling loop doubles h.
HDoubles ==
    (dpc = "qsufsort" /\ dpc' = "qsufsort") =>
        sufh >= 1 /\ sufh' = 2 * sufh

\* While the outer loop of the differ goes on, scan + len, the scan of its
\* next pass, is at most |new|.
ScanBounded ==
    (dpc = "loop" /\ differ.scan < Len(diff_new)) =>
        differ.scan + differ.len <= Len(diff_new)

\* A pass of the outer loop of the differ leaves scan where it was or
\* further on, and scan + len further on.
ScanAdvances ==
    (dpc = "loop" /\ dpc' = "loop") =>
        /\ differ'.scan >= differ.scan
        /\ differ'.scan + differ'.len > differ.scan + differ.len

\* C19: diff is total: no step panics; the doubling loop of qsufsort ends
\* after finitely many passes, as h doubles with every pass and a pass runs
\* only with h <= 2 |old|; the outer loop of the differ ends after finitely
\* many passes, as scan + len grows with every pass and is at most |new|
\* while the loop goes on; so diff returns Ok.
C19_DiffIsTotal ==
    /\ [](NoPanic /\ DoublingBounded /\ ScanBounded)
    /\ [][HDoubles /\ ScanAdvances]_vars

\* diff returned after four passes of the doubling loop and after passes of
\* the outer loop with and without a tuple.
C19_Witness ==
    /\ DiffReturned /\ sufh = 16 /\ Len(diff_new) = 16
    /\ Len(tuples) = 2 /\ differ.scan >= Len(diff_new)

----------------------------------------------------------------------------
(* Claims about the two appliers *)

\* C20: whenever patch_bsdf2 succeeds on the tuples, patch fed the same
\* tuples as a flat stream succeeds too and produces the same output.
C20_AppliersAgree ==
    (Returned /\ ret = Ok /\ PatchReturned) =>
        p_ret = Ok /\ p_new = new

====
